---- MODULE Spec2Model ----
(***************************************************************************)
(* A model of vps-audit: the audit engine (src/src/engine.rs), the result  *)
(* model (src/src/model.rs), the collectors (src/src/collectors.rs), the   *)
(* checks (src/src/checks), the Reporter (src/src/report.rs) and the exit  *)
(* code of the command line (src/src/main.rs).                             *)
(*                                                                         *)
(* Spec is the engine with up to MaxChecks of three checks and the exit of *)
(* main; SpecSuid is the engine with SuidFilesCheck and its walk;          *)
(* SpecChecks runs each default check on the snapshot of a machine;        *)
(* SpecCounts, SpecScore and SpecRender call the Reporter's functions;     *)
(* SpecWizard is main in interactive mode with the wizard's choices.       *)
(*                                                                         *)
(* An Option<T> of the source is a sequence of length at most one:         *)
(* None is <<>> and Some(x) is <<x>>.  A formatted string is the tuple of  *)
(* its pieces.                                                             *)
(***************************************************************************)
EXTENDS Integers, Sequences, FiniteSets, TLC

VARIABLES
    categories_filter,  \* AuditEngine.categories_filter: Option of the wanted strings
    checks,             \* AuditEngine.checks, in registration order
    pc,                 \* where main / run_all stands
    collectors,         \* run_all's local `collectors`: Option of the snapshot
    collect_calls,      \* calls of Collectors::collect made by this run_all
    idx,                \* position of the `for check in &self.checks` loop
    results,            \* run_all's local `results`
    thread,             \* per registry position: the scoped thread spawned for it
    run_calls,          \* per registry position: calls of check.run
    chan,               \* the mpsc channel of the current iteration
    elapsed,            \* seconds waited so far in rx.recv_timeout
    recv,               \* per registry position: what rx.recv_timeout returned
    exit,               \* Option of the process's exit: [strict, code]
    clones,             \* per registry position: Option of its thread's `collectors_clone`
    rep_in,             \* the result list handed to a Reporter function
    rep_out,            \* Option of what the Reporter function returned
    reporter,           \* the Reporter: [verbose, format]
    host,               \* Option of the machine Collectors::collect and the checks read
    chk_out,            \* Option of what a check's run returned: [check, result]
    suid,               \* the locals of SuidFilesCheck::run in its thread
    wizard              \* Option of interactive_wizard's locals: [current_results]

\* The variables of the Reporter, of a check run on its own, and all of them.
reportVars == <<rep_in, rep_out, reporter>>
checkVars == <<host, chk_out>>
vars == <<categories_filter, checks, pc, collectors, collect_calls, idx, results,
          thread, run_calls, chan, elapsed, recv, exit,
          clones, reportVars, checkVars, suid, wizard>>

\* ---------------------------------------------------------------- bounds

\* The longest registry the model registers.
MaxChecks == 2

\* ------------------------------------------------------------- constants

\* engine.rs: let timeout = Duration::from_secs(5)
TimeoutSecs == 5

\* ---------------------------------------------------------------- strings

Upper == <<"A","B","C","D","E","F","G","H","I","J","K","L","M",
           "N","O","P","Q","R","S","T","U","V","W","X","Y","Z">>
Lower == <<"a","b","c","d","e","f","g","h","i","j","k","l","m",
           "n","o","p","q","r","s","t","u","v","w","x","y","z">>

\* The characters of the strings the model uses.
Chars(s) ==
    CASE s = "security"    -> <<"s","e","c","u","r","i","t","y">>
      [] s = "linux"       -> <<"l","i","n","u","x">>
      [] s = "config"      -> <<"c","o","n","f","i","g">>
      [] s = "performance" -> <<"p","e","r","f","o","r","m","a","n","c","e">>
      [] s = "network"     -> <<"n","e","t","w","o","r","k">>
      [] s = "CONFIG"      -> <<"C","O","N","F","I","G">>
      [] s = "Network"     -> <<"N","e","t","w","o","r","k">>
      [] s = "no"          -> <<"n","o">>
      [] s = "No"          -> <<"N","o">>
      [] s = "yes"         -> <<"y","e","s">>
      [] s = "YES"         -> <<"Y","E","S">>

\* u8::to_ascii_lowercase: 'A'..'Z' to 'a'..'z', every other character unchanged.
ToAsciiLowercase(ch) ==
    IF \E k \in 1..26 : Upper[k] = ch
    THEN Lower[CHOOSE k \in 1..26 : Upper[k] = ch]
    ELSE ch

\* str::eq_ignore_ascii_case
EqIgnoreAsciiCase(a, b) ==
    /\ Len(Chars(a)) = Len(Chars(b))
    /\ \A k \in 1..Len(Chars(a)) :
          ToAsciiLowercase(Chars(a)[k]) = ToAsciiLowercase(Chars(b)[k])

\* ------------------------------------------------------------------ model

Status == {"Pass", "Warn", "Fail", "Skip"}

\* The checks the model registers, three of register_default_checks.
CheckIds == {"ssh.root_login", "system.reboot_required", "network.listening_ports"}

\* engine.rs 21-36: the checks of register_default_checks, in its order.
DefaultChecks ==
    <<"ssh.root_login", "ssh.password_auth", "ssh.port",
      "system.reboot_required", "system.disk_usage", "system.memory_usage",
      "system.cpu_usage", "policy.sudo_logging", "policy.password_policy",
      "files.suid_suspicious", "network.listening_ports",
      "firewall.presence", "firewall.nftables_rules">>

\* AuditCheck::title
Title(c) ==
    CASE c = "ssh.root_login"          -> "SSH root login is disabled"
      [] c = "ssh.password_auth"       -> "SSH password authentication is disabled"
      [] c = "ssh.port"                -> "SSH uses a non-default and privileged port"
      [] c = "system.reboot_required"  -> "System does not require reboot"
      [] c = "system.disk_usage"       -> "Disk usage is healthy"
      [] c = "system.memory_usage"     -> "Memory usage is healthy"
      [] c = "system.cpu_usage"        -> "CPU usage is healthy"
      [] c = "policy.sudo_logging"     -> "Sudo logging is enabled"
      [] c = "policy.password_policy"  -> "Strong password policy is enforced"
      [] c = "files.suid_suspicious"   ->
             "No suspicious SUID files exist outside standard locations"
      [] c = "network.listening_ports" -> "Public listening ports are limited"
      [] c = "firewall.presence"       -> "A firewall is installed and configured"
      [] c = "firewall.nftables_rules" ->
             "nftables has default-deny inbound policy with explicit allows"

\* AuditCheck::categories
Categories(c) ==
    CASE c \in {"ssh.root_login", "ssh.password_auth", "ssh.port"} ->
             <<"security", "linux", "config">>
      [] c = "system.reboot_required"  -> <<"linux", "performance", "security">>
      [] c \in {"system.disk_usage", "system.memory_usage", "system.cpu_usage"} ->
             <<"performance", "linux">>
      [] c \in {"policy.sudo_logging", "policy.password_policy",
                "files.suid_suspicious"} ->
             <<"security", "linux">>
      [] c \in {"network.listening_ports", "firewall.presence",
                "firewall.nftables_rules"} ->
             <<"security", "linux", "network">>

\* A CheckResult a check builds for itself: id, title and categories are its own.
ResultOf(c, status, reason, remediation, evidence) ==
    [id |-> c, title |-> Title(c), categories |-> Categories(c), status |-> status,
     reason |-> reason, remediation |-> remediation, evidence |-> evidence]

\* -------------------------------------------------------------- collectors

\* Collectors.sshd: None, Some(ok = false) or Some(ok = true) with permitrootlogin.
SshdDumps ==
    { <<>>,
      <<[ok |-> FALSE, permitrootlogin |-> <<>>, stderr |-> <<"sshd: no hostkeys available">>]>>,
      <<[ok |-> TRUE, permitrootlogin |-> <<"no">>, stderr |-> <<>>]>>,
      <<[ok |-> TRUE, permitrootlogin |-> <<"yes">>, stderr |-> <<>>]>> }

\* What Collectors::collect may return: the sshd dump and files_exist["/var/run/reboot-required"].
Snapshots == [sshd : SshdDumps, reboot_required : BOOLEAN]

\* ------------------------------------------------------------------ checks

\* Mutant of SshRootLoginRun: the Skip reason is the stderr of sshd alone.
SshRootLoginRun_StderrOnly(ctx) ==
    IF ctx.sshd # <<>>
    THEN LET sshd == ctx.sshd[1] IN
         IF ~sshd.ok
         THEN ResultOf("ssh.root_login", "Skip",
                       sshd.stderr,
                       <<"Ensure OpenSSH server is installed and accessible">>, <<>>)
         ELSE LET value == IF sshd.permitrootlogin # <<>> THEN sshd.permitrootlogin[1]
                           ELSE "prohibit-password"
                  status == IF value = "no" \/ value = "prohibit-password"
                            THEN "Pass" ELSE "Fail"
                  reason == IF status = "Pass"
                            THEN <<"PermitRootLogin is '", value, "'">>
                            ELSE <<"PermitRootLogin is '", value,
                                   "' (should be 'no' or 'prohibit-password')">>
              IN ResultOf("ssh.root_login", status, reason,
                          <<"Edit sshd_config to set PermitRootLogin no or prohibit-password; then systemctl reload sshd">>,
                          <<value>>)
    ELSE ResultOf("ssh.root_login", "Skip", <<"OpenSSH server configuration not found">>,
                  <<>>, <<>>)

\* SshRootLoginCheck::run
SshRootLoginRun(ctx) ==
    IF ctx.sshd # <<>>
    THEN LET sshd == ctx.sshd[1] IN
         IF ~sshd.ok
         THEN ResultOf("ssh.root_login", "Skip",
                       <<"Unable to obtain sshd config: ">> \o sshd.stderr,
                       <<"Ensure OpenSSH server is installed and accessible">>, <<>>)
         ELSE LET value == IF sshd.permitrootlogin # <<>> THEN sshd.permitrootlogin[1]
                           ELSE "prohibit-password"
                  status == IF value = "no" \/ value = "prohibit-password"
                            THEN "Pass" ELSE "Fail"
                  reason == IF status = "Pass"
                            THEN <<"PermitRootLogin is '", value, "'">>
                            ELSE <<"PermitRootLogin is '", value,
                                   "' (should be 'no' or 'prohibit-password')">>
              IN ResultOf("ssh.root_login", status, reason,
                          <<"Edit sshd_config to set PermitRootLogin no or prohibit-password; then systemctl reload sshd">>,
                          <<value>>)
    ELSE ResultOf("ssh.root_login", "Skip", <<"OpenSSH server configuration not found">>,
                  <<>>, <<>>)

\* RebootRequiredCheck::run
RebootRequiredRun(ctx) ==
    LET reboot_required == ctx.reboot_required
        status == IF reboot_required THEN "Warn" ELSE "Pass"
        reason == IF reboot_required THEN <<"System indicates a reboot is required">>
                  ELSE <<"No reboot required">>
    IN ResultOf("system.reboot_required", status, reason,
                <<"Reboot to apply pending updates">>, <<>>)

\* The (total, public) port counts collect_listening_ports may find in /proc/net.
PortCounts == { <<0, 0>>, <<12, 3>>, <<25, 6>> }

\* ListeningPortsCheck::run, given what it read from /proc/net
ListeningPortsRun(total, internet_facing) ==
    LET status == IF total < 10 /\ internet_facing < 3 THEN "Pass"
                  ELSE IF total < 20 /\ internet_facing < 5 THEN "Warn" ELSE "Fail"
        reason == <<"Listening ports total: ", ToString(total), ", public: ",
                    ToString(internet_facing)>>
    IN ResultOf("network.listening_ports", status, reason,
                <<"Close unnecessary ports; bind services to localhost; use a firewall">>,
                <<"ports">>)

\* Mutant of RunResults: RebootRequiredCheck looks for the file itself when it runs.
RunResults_LiveReboot(c, ctx) ==
    CASE c = "ssh.root_login"          -> { SshRootLoginRun(ctx) }
      [] c = "system.reboot_required"  ->
             { RebootRequiredRun([ctx EXCEPT !.reboot_required = b]) : b \in BOOLEAN }
      [] c = "network.listening_ports" ->
             { ListeningPortsRun(p[1], p[2]) : p \in PortCounts }

\* The results check.run(&collectors_clone) can return.
RunResults(c, ctx) ==
    CASE c = "ssh.root_login"          -> { SshRootLoginRun(ctx) }
      [] c = "system.reboot_required"  -> { RebootRequiredRun(ctx) }
      [] c = "network.listening_ports" ->
             { ListeningPortsRun(p[1], p[2]) : p \in PortCounts }

\* ------------------------------------------------------------ the machine

\* The text of a decimal number is modelled by the number; NotANumber is a text that
\* no integer parse accepts.
NotANumber == -1

\* str::parse::<u16>
ParseU16(text) == IF text \in 0..65535 THEN <<text>> ELSE <<>>

\* str::parse::<u32>; the model's numbers stay below 2^31.
ParseU32(text) == IF text >= 0 THEN <<text>> ELSE <<>>

\* `unpriv_start as u16`: the low 16 bits of the u32.
AsU16(n) == n % 65536

\* Option::unwrap_or
UnwrapOr(opt, default) == IF opt # <<>> THEN opt[1] ELSE default

\* The configuration texts of the model's machines.
ConfStrings == {"no", "No", "yes", "YES"}

\* str::to_lowercase on the model's ASCII texts.
ToLowercase(str) ==
    LET low == [k \in 1..Len(Chars(str)) |-> ToAsciiLowercase(Chars(str)[k])]
    IN CHOOSE t \in ConfStrings : Chars(t) = low

\* The key/value lines of an sshd configuration: each key absent or present.
SshdConfs ==
    { [permitrootlogin |-> <<>>,      passwordauthentication |-> <<>>,      port |-> <<>>],
      [permitrootlogin |-> <<"no">>,  passwordauthentication |-> <<"no">>,  port |-> <<2222>>],
      [permitrootlogin |-> <<"yes">>, passwordauthentication |-> <<"yes">>, port |-> <<22>>],
      [permitrootlogin |-> <<"No">>,  passwordauthentication |-> <<"YES">>, port |-> <<222>>],
      [permitrootlogin |-> <<"no">>,  passwordauthentication |-> <<"no">>,
       port |-> <<NotANumber>>] }

\* What the machine answers to dump_sshd_config: how `sshd -T` ended, what it wrote
\* (sshd prints small letters), and /etc/ssh/sshd_config if it can be read.
SshdHosts ==
    LET printed == { d \in SshdConfs :
                        \A k \in {"permitrootlogin", "passwordauthentication"} :
                            d[k] = <<>> \/ d[k][1] = ToLowercase(d[k][1]) }
        nothing == CHOOSE d \in SshdConfs : d.permitrootlogin = <<>>
        written == { <<>> } \cup { <<d>> : d \in { d \in SshdConfs : d.port # <<2222>> } }
    IN { [cmd |-> "success", stdout |-> d, stderr |-> "", file |-> <<>>] : d \in printed }
       \cup { [cmd |-> "exit_failure", stdout |-> nothing, stderr |-> e, file |-> f] :
                 e \in {"", "sshd: no hostkeys available"},
                 f \in { <<>>, <<nothing>> } }
       \cup { [cmd |-> "spawn_error", stdout |-> nothing, stderr |-> "", file |-> f] :
                 f \in written }

\* (total_bytes, available_bytes) summed over the disks.
DiskSpaces == { <<0, 0>>, <<4096, 3072>>, <<1000000, 400000>>, <<1000000, 100000>> }

\* The first field of /proc/loadavg in hundredths, if it parses.
LoadAverages == { <<>>, <<25>>, <<300>>, <<1600>> }

\* The machines of the model.
Hosts ==
    [sshd : SshdHosts, reboot_required : BOOLEAN, disk : DiskSpaces,
     load_average_1m : LoadAverages, total_memory_bytes : {0, 8192}]

\* Mutant of DumpSshdConfig: a failed `sshd -T` is taken as a configuration without
\* lines.
DumpSshdConfig_FailureAsEmpty(h) ==
    IF h.cmd # "spawn_error"
    THEN IF h.cmd = "success"
         THEN <<[ok |-> TRUE, permitrootlogin |-> h.stdout.permitrootlogin,
                 passwordauthentication |-> h.stdout.passwordauthentication,
                 port |-> h.stdout.port, stderr |-> <<>>]>>
         ELSE <<[ok |-> TRUE, permitrootlogin |-> <<>>, passwordauthentication |-> <<>>,
                 port |-> <<>>, stderr |-> <<>>]>>
    ELSE IF h.file # <<>>
         THEN LET lower(v) == IF v = <<>> THEN <<>> ELSE <<ToLowercase(v[1])>>
              IN <<[ok |-> TRUE, permitrootlogin |-> lower(h.file[1].permitrootlogin),
                    passwordauthentication |-> lower(h.file[1].passwordauthentication),
                    port |-> h.file[1].port, stderr |-> <<>>]>>
         ELSE <<>>

\* dump_sshd_config
DumpSshdConfig(h) ==
    IF h.cmd # "spawn_error"
    THEN IF h.cmd = "success"
         THEN <<[ok |-> TRUE, permitrootlogin |-> h.stdout.permitrootlogin,
                 passwordauthentication |-> h.stdout.passwordauthentication,
                 port |-> h.stdout.port, stderr |-> <<>>]>>
         ELSE <<[ok |-> FALSE, permitrootlogin |-> <<>>, passwordauthentication |-> <<>>,
                 port |-> <<>>, stderr |-> <<h.stderr>>]>>
    ELSE IF h.file # <<>>
         THEN LET lower(v) == IF v = <<>> THEN <<>> ELSE <<ToLowercase(v[1])>>
              IN <<[ok |-> TRUE, permitrootlogin |-> lower(h.file[1].permitrootlogin),
                    passwordauthentication |-> lower(h.file[1].passwordauthentication),
                    port |-> h.file[1].port, stderr |-> <<>>]>>
         ELSE <<>>

\* Collectors::collect on machine h: the fields the checks read.
Collect(h) ==
    [sshd |-> DumpSshdConfig(h.sshd),
     reboot_required |-> h.reboot_required,
     disk |-> [total_bytes |-> h.disk[1], available_bytes |-> h.disk[2]],
     load_average_1m |-> h.load_average_1m,
     total_memory_bytes |-> h.total_memory_bytes]

\* ------------------------------------------------------- the other checks

\* The quotient a / b rounded to the nearest integer, ties to even: how {:.N} rounds.
RoundHalfEvenDiv(a, b) ==
    LET q == a \div b
        r == a % b
    IN IF 2 * r > b \/ (2 * r = b /\ q % 2 = 1) THEN q + 1 ELSE q

\* format!("{:.1}") of tenths / 10 and format!("{:.2}") of hundredths / 100
Fixed1(tenths) == <<ToString(tenths \div 10), ".", ToString(tenths % 10)>>
Fixed2(hundredths) ==
    <<ToString(hundredths \div 100), ".", ToString((hundredths % 100) \div 10),
      ToString(hundredths % 10)>>

UNITS == <<"B", "KiB", "MiB", "GiB", "TiB">>

\* human_bytes: the number of divisions by 1024 its loop makes.
HumanBytesIdx(bytes) ==
    LET RECURSIVE Steps(_, _)
        Steps(n, i) == IF n >= 1024 /\ i < Len(UNITS) - 1 THEN Steps(n \div 1024, i + 1)
                       ELSE i
    IN Steps(bytes, 0)

\* human_bytes
HumanBytes(bytes) ==
    LET i == HumanBytesIdx(bytes)
    IN Fixed1(RoundHalfEvenDiv(bytes * 10, 1024 ^ i)) \o <<" ", UNITS[i + 1]>>

\* (1.0 - avail / total) * 100.0 against a threshold, and as {:.0} prints it; the
\* model's byte counts keep the f64 arithmetic away from the thresholds.
UsedBelow(total, avail, pct) ==
    IF total > 0 THEN 100 * (total - avail) < pct * total ELSE 0 < pct
UsedPct(total, avail) ==
    IF total > 0 THEN RoundHalfEvenDiv(100 * (total - avail), total) ELSE 0

\* SshPasswordAuthCheck::run
SshPasswordAuthRun(ctx) ==
    IF ctx.sshd # <<>>
    THEN LET sshd == ctx.sshd[1] IN
         IF ~sshd.ok
         THEN ResultOf("ssh.password_auth", "Skip", <<"Unable to obtain sshd config">>,
                       <<>>, <<>>)
         ELSE LET value == UnwrapOr(sshd.passwordauthentication, "yes")
                  status == IF value = "no" THEN "Pass" ELSE "Fail"
                  reason == IF status = "Pass" THEN <<"PasswordAuthentication is 'no'">>
                            ELSE <<"PasswordAuthentication is '", value,
                                   "' (should be 'no')">>
              IN ResultOf("ssh.password_auth", status, reason,
                          <<"Set PasswordAuthentication no; enforce key-based auth">>,
                          <<value>>)
    ELSE ResultOf("ssh.password_auth", "Skip",
                  <<"OpenSSH server configuration not found">>, <<>>, <<>>)

\* What /proc/sys/net/ipv4/ip_unprivileged_port_start may hold, if it can be read.
UnprivilegedStartFiles == { <<>>, <<1024>>, <<0>>, <<65536>>, <<NotANumber>> }

\* read_unprivileged_start
ReadUnprivilegedStart(file) ==
    IF file # <<>> THEN ParseU32(file[1]) ELSE <<1024>>

\* SshPortCheck::run, given what read_unprivileged_start finds
SshPortRun(ctx, file) ==
    IF ctx.sshd # <<>>
    THEN LET sshd == ctx.sshd[1] IN
         IF ~sshd.ok
         THEN ResultOf("ssh.port", "Skip", <<"Unable to obtain sshd config">>, <<>>, <<>>)
         ELSE LET port_str == UnwrapOr(sshd.port, 22)
                  port == UnwrapOr(ParseU16(port_str), 22)
                  unpriv_start == UnwrapOr(ReadUnprivilegedStart(file), 1024)
                  status == IF port = 22 THEN "Warn"
                            ELSE IF port >= AsU16(unpriv_start) THEN "Fail" ELSE "Pass"
                  reason ==
                      CASE status = "Pass" ->
                               <<"Using privileged non-default port ", ToString(port),
                                 " (< ", ToString(unpriv_start), ")">>
                        [] status = "Warn" -> <<"Using default SSH port 22">>
                        [] status = "Fail" ->
                               <<"Using unprivileged port ", ToString(port),
                                 " (>= ", ToString(unpriv_start), ")">>
              IN ResultOf("ssh.port", status, reason,
                          <<"Choose a port < ", ToString(unpriv_start),
                            " and not 22; update sshd_config and reload">>,
                          <<ToString(port)>>)
    ELSE ResultOf("ssh.port", "Skip", <<"OpenSSH server configuration not found">>,
                  <<>>, <<>>)

\* DiskUsageCheck::run
DiskUsageRun(ctx) ==
    LET total == ctx.disk.total_bytes
        avail == ctx.disk.available_bytes
        status == IF UsedBelow(total, avail, 50) THEN "Pass"
                  ELSE IF UsedBelow(total, avail, 80) THEN "Warn" ELSE "Fail"
        reason == <<"Disk used: ", ToString(UsedPct(total, avail)), "% (total: ">>
                  \o HumanBytes(total) \o <<", available: ">> \o HumanBytes(avail)
                  \o <<")">>
    IN ResultOf("system.disk_usage", status, reason,
                <<"Clean unused files, logs, images; consider expanding disk">>, <<>>)

\* What read_meminfo may return: None, or (MemTotal, MemAvailable) in bytes.
MemInfos == { <<>>, << <<8192, 6144>> >>, << <<8192, 2048>> >>, << <<8192, 1024>> >> }

\* MemoryUsageCheck::run, given what read_meminfo returns
MemoryUsageRun(ctx, meminfo) ==
    LET pair == UnwrapOr(meminfo, <<ctx.total_memory_bytes,
                                    ctx.total_memory_bytes \div 2>>)
        total == pair[1]
        avail == pair[2]
        status == IF UsedBelow(total, avail, 50) THEN "Pass"
                  ELSE IF UsedBelow(total, avail, 80) THEN "Warn" ELSE "Fail"
        reason == <<"Memory used: ", ToString(UsedPct(total, avail)), "% (total: ">>
                  \o HumanBytes(total) \o <<", available: ">> \o HumanBytes(avail)
                  \o <<")">>
    IN ResultOf("system.memory_usage", status, reason,
                <<"Reduce memory usage, tune services, or increase RAM/swap">>, <<>>)

\* What num_cpus::get may return.
CoreCounts == {1, 4}

\* CpuUsageCheck::run, given num_cpus::get(); the load is in hundredths
CpuUsageRun(ctx, cores) ==
    LET load1 == UnwrapOr(ctx.load_average_1m, 0)
        below(pct) == IF cores > 0 THEN load1 < pct * cores ELSE 0 < pct
        load_ratio == IF cores > 0 THEN RoundHalfEvenDiv(load1, cores) ELSE 0
        status == IF below(50) THEN "Pass" ELSE IF below(90) THEN "Warn" ELSE "Fail"
        reason == <<"Load(1m): ">> \o Fixed2(load1) \o <<", cores: ", ToString(cores),
                    ", ratio: ">> \o Fixed2(load_ratio)
    IN ResultOf("system.cpu_usage", status, reason,
                <<"Investigate high CPU processes, tune services, or scale resources">>,
                <<>>)

\* /etc/sudoers as its lines (none if it cannot be read), each line by what the check
\* tests: whether its trim starts with "Defaults" and whether it contains "logfile".
SudoersFiles ==
    { <<>>,
      <<[defaults |-> TRUE, logfile |-> FALSE], [defaults |-> FALSE, logfile |-> TRUE]>>,
      <<[defaults |-> FALSE, logfile |-> FALSE], [defaults |-> TRUE, logfile |-> TRUE]>> }

\* SudoLoggingCheck::run, given the content of /etc/sudoers
SudoLoggingRun(content) ==
    LET enabled == \E k \in 1..Len(content) : content[k].defaults /\ content[k].logfile
        status == IF enabled THEN "Pass" ELSE "Fail"
        reason == IF enabled THEN <<"Found Defaults logfile in /etc/sudoers">>
                  ELSE <<"No Defaults logfile directive found in /etc/sudoers">>
    IN ResultOf("policy.sudo_logging", status, reason,
                <<"Add 'Defaults logfile=/var/log/sudo.log' to /etc/sudoers via visudo">>,
                <<>>)

\* /etc/security/pwquality.conf as its lines (none if it cannot be read), each line
\* without its comment: whether it starts with "minlen" and the text after its '='.
PwqualityFiles ==
    { <<>>,
      <<[minlen |-> TRUE, value |-> <<8>>]>>,
      <<[minlen |-> FALSE, value |-> <<14>>], [minlen |-> TRUE, value |-> <<>>]>>,
      <<[minlen |-> TRUE, value |-> <<NotANumber>>], [minlen |-> TRUE, value |-> <<12>>]>> }

\* PasswordPolicyCheck::run, given the content of /etc/security/pwquality.conf
PasswordPolicyRun(content) ==
    LET minlen_ok == \E k \in 1..Len(content) :
                        /\ content[k].minlen
                        /\ content[k].value # <<>>
                        /\ UnwrapOr(ParseU32(content[k].value[1]), 0) >= 12
        status == IF minlen_ok THEN "Pass" ELSE "Fail"
        reason == IF minlen_ok THEN <<"minlen >= 12 configured">>
                  ELSE <<"minlen < 12 or no policy configured">>
    IN ResultOf("policy.password_policy", status, reason,
                <<"Configure /etc/security/pwquality.conf with 'minlen=12' or higher">>,
                <<>>)

\* The sets of firewall paths that may exist on the machine.
FirewallPaths ==
    { {}, {"/etc/nftables.conf"}, {"/etc/ufw/ufw.conf", "/lib/systemd/system/ufw.service"},
      {"/etc/iptables"}, {"/etc/systemd/system/nftables.service"} }

\* FirewallPresenceCheck::run, given the paths that exist
FirewallPresenceRun(exists) ==
    LET nft_present == "/etc/nftables.conf" \in exists \/ "/etc/nftables" \in exists
        ufw_present == "/etc/ufw/ufw.conf" \in exists
        ipt_present == "/etc/iptables" \in exists
        nft_unit == \/ "/lib/systemd/system/nftables.service" \in exists
                    \/ "/etc/systemd/system/nftables.service" \in exists
        ufw_unit == \/ "/lib/systemd/system/ufw.service" \in exists
                    \/ "/etc/systemd/system/ufw.service" \in exists
        any_present == nft_present \/ ufw_present \/ ipt_present \/ nft_unit \/ ufw_unit
        status == IF any_present THEN "Warn" ELSE "Fail"
        reason == IF any_present THEN <<"Firewall tooling detected (verify active rules)">>
                  ELSE <<"No firewall tooling detected">>
    IN ResultOf("firewall.presence", status, reason,
                <<"Install and enable nftables (preferred) or UFW; define a default-deny inbound policy with explicit allows">>,
                <<[nftables |-> nft_present \/ nft_unit, ufw |-> ufw_present \/ ufw_unit,
                   iptables |-> ipt_present]>>)

\* The nftables files the check can read, each as its lines, each line by what the
\* check tests: "chain input", "type filter hook input", "policy drop".
NftablesFiles ==
    { <<>>,
      << <<>> >>,
      << <<[chain_input |-> TRUE, hook_input |-> FALSE, policy_drop |-> FALSE],
           [chain_input |-> FALSE, hook_input |-> TRUE, policy_drop |-> TRUE]>> >>,
      << <<[chain_input |-> FALSE, hook_input |-> TRUE, policy_drop |-> TRUE]>> >>,
      << <<[chain_input |-> TRUE, hook_input |-> FALSE, policy_drop |-> FALSE]>>,
         <<[chain_input |-> TRUE, hook_input |-> FALSE, policy_drop |-> TRUE]>> >> }

\* NftablesRulesCheck::run, given the files read: content is their lines, and it is
\* empty only without a file, as every file read adds a newline.  The evidence keeps
\* the two flags the status reads.
NftablesRulesRun(files) ==
    IF files = <<>>
    THEN ResultOf("firewall.nftables_rules", "Skip",
                  <<"No nftables configuration files found">>,
                  <<"Create /etc/nftables.conf with a default deny policy">>, <<>>)
    ELSE LET AnyLine(P(_)) ==
                 \E f \in 1..Len(files) : \E k \in 1..Len(files[f]) : P(files[f][k])
             InputChain(l) == l.chain_input
             HookDrop(l) == l.hook_input /\ l.policy_drop
             ChainDrop(l) == l.chain_input /\ l.policy_drop
             has_input_chain == AnyLine(InputChain)
             has_default_drop == AnyLine(HookDrop) \/ AnyLine(ChainDrop)
             status == IF has_input_chain /\ has_default_drop THEN "Pass" ELSE "Warn"
             reason == IF status = "Pass" THEN <<"Found input chain with policy drop">>
                       ELSE <<"Default drop policy not clearly configured in nftables">>
         IN ResultOf("firewall.nftables_rules", status, reason,
                     <<"Define 'chain input { type filter hook input priority 0; policy drop; ... }' with explicit allows">>,
                     <<[input_chain |-> has_input_chain, default_drop |-> has_default_drop]>>)

\* files.rs 16-17: the budget of the walk in seconds, and max_files.
BudgetSecs == 5
MaxFiles == 100000

\* Mutant of SuidFilesResult: timed_out forgets max_files.
SuidFilesResult_BudgetOnly(visited_files, suspicious_count, elapsed_over) ==
    LET timed_out == elapsed_over
        status == IF suspicious_count = 0 /\ ~timed_out THEN "Pass" ELSE "Warn"
        reason == IF suspicious_count = 0 /\ ~timed_out
                  THEN <<"No suspicious SUID files found">>
                  ELSE IF timed_out
                  THEN <<"Partial scan (", ToString(visited_files), " files, ~",
                         ToString(BudgetSecs), "s budget) found ",
                         ToString(suspicious_count), " potential suspicious SUID files">>
                  ELSE <<"Found ", ToString(suspicious_count),
                         " potential suspicious SUID files">>
    IN ResultOf("files.suid_suspicious", status, reason,
                <<"Investigate SUID files; remove SUID bit if unnecessary">>, <<>>)

\* files.rs 66-75: the result SuidFilesCheck::run builds after its walk; elapsed_over
\* is start_time.elapsed() > budget when line 66 reads the clock.
SuidFilesResult(visited_files, suspicious_count, elapsed_over) ==
    LET timed_out == elapsed_over \/ visited_files >= MaxFiles
        status == IF suspicious_count = 0 /\ ~timed_out THEN "Pass" ELSE "Warn"
        reason == IF suspicious_count = 0 /\ ~timed_out
                  THEN <<"No suspicious SUID files found">>
                  ELSE IF timed_out
                  THEN <<"Partial scan (", ToString(visited_files), " files, ~",
                         ToString(BudgetSecs), "s budget) found ",
                         ToString(suspicious_count), " potential suspicious SUID files">>
                  ELSE <<"Found ", ToString(suspicious_count),
                         " potential suspicious SUID files">>
    IN ResultOf("files.suid_suspicious", status, reason,
                <<"Investigate SUID files; remove SUID bit if unnecessary">>, <<>>)

\* How a walk may end: files visited, suspicious files counted, and whether the
\* budget had run out when the walk was over.
SuidWalks ==
    { <<0, 0, FALSE>>, <<1200, 0, FALSE>>, <<1200, 2, FALSE>>, <<MaxFiles, 0, FALSE>>,
      <<MaxFiles, 1, TRUE>>, <<40000, 0, TRUE>>, <<40000, 3, TRUE>> }

\* The results the run of a default check can return on snapshot ctx, over what the
\* check reads from the machine by itself.
DefaultRunResults(c, ctx) ==
    CASE c \in CheckIds                -> RunResults(c, ctx)
      [] c = "ssh.password_auth"       -> { SshPasswordAuthRun(ctx) }
      [] c = "ssh.port"                ->
             { SshPortRun(ctx, file) : file \in UnprivilegedStartFiles }
      [] c = "system.disk_usage"       -> { DiskUsageRun(ctx) }
      [] c = "system.memory_usage"     ->
             { MemoryUsageRun(ctx, meminfo) : meminfo \in MemInfos }
      [] c = "system.cpu_usage"        -> { CpuUsageRun(ctx, cores) : cores \in CoreCounts }
      [] c = "policy.sudo_logging"     ->
             { SudoLoggingRun(content) : content \in SudoersFiles }
      [] c = "policy.password_policy"  ->
             { PasswordPolicyRun(content) : content \in PwqualityFiles }
      [] c = "files.suid_suspicious"   ->
             { SuidFilesResult(w[1], w[2], w[3]) : w \in SuidWalks }
      [] c = "firewall.presence"       ->
             { FirewallPresenceRun(exists) : exists \in FirewallPaths }
      [] c = "firewall.nftables_rules" ->
             { NftablesRulesRun(files) : files \in NftablesFiles }

\* ------------------------------------------------------------------ engine

\* The filters the model constructs the engine with: None, or Some of wanted strings.
WantedStrings == {"CONFIG", "Network"}
Filters == { <<>> } \cup { <<w>> : w \in SUBSET WantedStrings }

\* Mutant of MatchesFilter: the categories are compared with ==, case and all.
MatchesFilter_CaseSensitive(c) ==
    IF categories_filter # <<>>
    THEN LET filter == categories_filter[1]
             categories == Categories(c)
         IN \E wanted \in filter :
               \E k \in 1..Len(categories) : Chars(categories[k]) = Chars(wanted)
    ELSE TRUE

\* engine.rs 46-52: whether run_all dispatches the check (no `continue 'outer`).
MatchesFilter(c) ==
    IF categories_filter # <<>>
    THEN LET filter == categories_filter[1]
             categories == Categories(c)
         IN \E wanted \in filter :
               \E k \in 1..Len(categories) : EqIgnoreAsciiCase(categories[k], wanted)
    ELSE TRUE

\* Mutant of TimeoutResult: the timeout is reported as a failure of the check.
TimeoutResult_Fail(c) ==
    [id |-> c, title |-> Title(c), categories |-> Categories(c), status |-> "Fail",
     reason |-> <<"Check timed out after ", ToString(TimeoutSecs), "s">>,
     remediation |-> <<"Re-run with narrower categories or open an issue if this persists">>,
     evidence |-> <<>>]

\* engine.rs 64-72: the result pushed when rx.recv_timeout returns Err(_).
TimeoutResult(c) ==
    [id |-> c, title |-> Title(c), categories |-> Categories(c), status |-> "Skip",
     reason |-> <<"Check timed out after ", ToString(TimeoutSecs), "s">>,
     remediation |-> <<"Re-run with narrower categories or open an issue if this persists">>,
     evidence |-> <<>>]

Positions == 1..MaxChecks

\* main.rs 15-24: without --format and --verbose the Reporter is Text and not verbose.
DefaultReporter == [verbose |-> FALSE, format |-> "Text"]

\* No Reporter function has been handed a list.
ReporterIdle ==
    /\ rep_in = <<>>
    /\ rep_out = <<>>
    /\ reporter = DefaultReporter

\* No check is run on its own.
ChecksIdle ==
    /\ host = <<>>
    /\ chk_out = <<>>

\* files.rs 13-17: the locals of SuidFilesCheck::run before its walk starts.
\* started_at is the second of the engine's wait in which start_time was taken and
\* `over` is start_time.elapsed() > budget; hit_max, hit_time and ended tell how the
\* loop was left; ret is the Option of the CheckResult returned.
SuidUnstarted ==
    [phase |-> "unstarted", started_at |-> 0, visited_files |-> 0, suspicious_count |-> 0,
     over |-> FALSE, hit_max |-> FALSE, hit_time |-> FALSE, ended |-> FALSE, ret |-> <<>>]

\* SuidFilesCheck::run is not running.
SuidIdle == suid = SuidUnstarted

\* interactive_wizard has not been called.
WizardIdle == wizard = <<>>

Init ==
    /\ categories_filter \in Filters
    /\ checks = <<>>
    /\ pc = "new"
    /\ collectors = <<>>
    /\ collect_calls = 0
    /\ idx = 0
    /\ results = <<>>
    /\ thread = [i \in Positions |-> "unspawned"]
    /\ run_calls = [i \in Positions |-> 0]
    /\ chan = <<>>
    /\ elapsed = 0
    /\ recv = [i \in Positions |-> "none"]
    /\ exit = <<>>
    /\ clones = [i \in Positions |-> <<>>]
    /\ ReporterIdle
    /\ ChecksIdle
    /\ SuidIdle
    /\ WizardIdle

\* AuditEngine::register
Register(c) ==
    /\ pc = "new"
    /\ Len(checks) < MaxChecks
    /\ checks' = Append(checks, c)
    /\ UNCHANGED <<categories_filter, pc, collectors, collect_calls, idx, results,
                   thread, run_calls, chan, elapsed, recv, exit,
                   clones, reportVars, checkVars, suid, wizard>>

\* run_all is called: Collectors::collect starts.
RunAllEnter ==
    /\ pc = "new"
    /\ pc' = "collect"
    /\ collect_calls' = collect_calls + 1
    /\ UNCHANGED <<categories_filter, checks, collectors, idx, results, thread,
                   run_calls, chan, elapsed, recv, exit,
                   clones, reportVars, checkVars, suid, wizard>>

\* Collectors::collect returns the snapshot; results is created; the loop begins.
CollectReturn(snap) ==
    /\ pc = "collect"
    /\ collectors' = <<snap>>
    /\ results' = <<>>
    /\ idx' = 1
    /\ pc' = "loop"
    /\ UNCHANGED <<categories_filter, checks, collect_calls, thread, run_calls, chan,
                   elapsed, recv, exit, clones, reportVars, checkVars, suid, wizard>>

\* engine.rs 51: the check matches no wanted category, continue 'outer.
LoopContinue ==
    /\ pc = "loop"
    /\ idx <= Len(checks)
    /\ ~MatchesFilter(checks[idx])
    /\ idx' = idx + 1
    /\ UNCHANGED <<categories_filter, checks, pc, collectors, collect_calls, results,
                   thread, run_calls, chan, elapsed, recv, exit,
                   clones, reportVars, checkVars, suid, wizard>>

\* Mutant of LoopSpawn: the snapshot is collected again for every check.
LoopSpawn_Recollect ==
    /\ pc = "loop"
    /\ idx <= Len(checks)
    /\ MatchesFilter(checks[idx])
    /\ collect_calls' = collect_calls + 1
    /\ chan' = <<>>
    /\ elapsed' = 0
    /\ thread' = [thread EXCEPT ![idx] = "running"]
    /\ run_calls' = [run_calls EXCEPT ![idx] = @ + 1]
    /\ pc' = "recv"
    /\ clones' = [clones EXCEPT ![idx] = collectors]
    /\ UNCHANGED <<categories_filter, checks, collectors, idx, results,
                   recv, exit, reportVars, checkVars, suid, wizard>>

\* Mutant of LoopSpawn: the check is dispatched whether or not the filter wants it.
LoopSpawn_Unfiltered ==
    /\ pc = "loop"
    /\ idx <= Len(checks)
    /\ chan' = <<>>
    /\ elapsed' = 0
    /\ clones' = [clones EXCEPT ![idx] = collectors]
    /\ thread' = [thread EXCEPT ![idx] = "running"]
    /\ run_calls' = [run_calls EXCEPT ![idx] = @ + 1]
    /\ pc' = "recv"
    /\ UNCHANGED <<categories_filter, checks, collectors, collect_calls, idx, results,
                   recv, exit, reportVars, checkVars, suid, wizard>>

\* Mutant of LoopSpawn: the thread is handed a snapshot of its own making.
LoopSpawn_OwnSnapshot ==
    /\ pc = "loop"
    /\ idx <= Len(checks)
    /\ MatchesFilter(checks[idx])
    /\ chan' = <<>>
    /\ elapsed' = 0
    /\ \E snap \in Snapshots : clones' = [clones EXCEPT ![idx] = <<snap>>]
    /\ thread' = [thread EXCEPT ![idx] = "running"]
    /\ run_calls' = [run_calls EXCEPT ![idx] = @ + 1]
    /\ pc' = "recv"
    /\ UNCHANGED <<categories_filter, checks, collectors, collect_calls, idx, results,
                   recv, exit, reportVars, checkVars, suid, wizard>>

\* engine.rs 54-61: a fresh channel, the snapshot is cloned and moved into the
\* thread that is spawned, recv_timeout starts.
LoopSpawn ==
    /\ pc = "loop"
    /\ idx <= Len(checks)
    /\ MatchesFilter(checks[idx])
    /\ chan' = <<>>
    /\ elapsed' = 0
    /\ clones' = [clones EXCEPT ![idx] = collectors]
    /\ thread' = [thread EXCEPT ![idx] = "running"]
    /\ run_calls' = [run_calls EXCEPT ![idx] = @ + 1]
    /\ pc' = "recv"
    /\ UNCHANGED <<categories_filter, checks, collectors, collect_calls, idx, results,
                   recv, exit, reportVars, checkVars, suid, wizard>>

\* The receiver of position i's channel is alive: the engine is in its recv_timeout.
ReceiverAlive(i) == pc = "recv" /\ idx = i

\* Mutant of ThreadReturn: one channel serves every iteration, so the send reaches
\* whichever recv_timeout is waiting.
ThreadReturn_SharedChannel(i) ==
    /\ thread[i] = "running"
    /\ \E r \in RunResults(checks[i], clones[i][1]) :
          chan' = IF pc = "recv" THEN <<r>> ELSE chan
    /\ thread' = [thread EXCEPT ![i] = "finished"]
    /\ UNCHANGED <<categories_filter, checks, pc, collectors, collect_calls, idx,
                   results, run_calls, elapsed, recv, exit, clones, reportVars, checkVars,
                   suid, wizard>>

\* engine.rs 57-58: check.run returns and the thread sends the result; the send
\* fails, and is ignored, once the receiver has been dropped.
ThreadReturn(i) ==
    /\ thread[i] = "running"
    /\ \E r \in RunResults(checks[i], clones[i][1]) :
          chan' = IF ReceiverAlive(i) THEN <<r>> ELSE chan
    /\ thread' = [thread EXCEPT ![i] = "finished"]
    /\ UNCHANGED <<categories_filter, checks, pc, collectors, collect_calls, idx,
                   results, run_calls, elapsed, recv, exit,
                   clones, reportVars, checkVars, suid, wizard>>

\* check.run panics: the thread unwinds and drops tx without sending.
ThreadPanic(i) ==
    /\ thread[i] = "running"
    /\ thread' = [thread EXCEPT ![i] = "panicked"]
    /\ UNCHANGED <<categories_filter, checks, pc, collectors, collect_calls, idx,
                   results, run_calls, chan, elapsed, recv, exit,
                   clones, reportVars, checkVars, suid, wizard>>

\* check.run enters a wait or a loop it never leaves.
ThreadHang(i) ==
    /\ thread[i] = "running"
    /\ thread' = [thread EXCEPT ![i] = "hung"]
    /\ UNCHANGED <<categories_filter, checks, pc, collectors, collect_calls, idx,
                   results, run_calls, chan, elapsed, recv, exit,
                   clones, reportVars, checkVars, suid, wizard>>

\* One second of the recv_timeout budget passes.
Tick ==
    /\ pc = "recv"
    /\ elapsed < TimeoutSecs
    /\ elapsed' = elapsed + 1
    /\ UNCHANGED <<categories_filter, checks, pc, collectors, collect_calls, idx,
                   results, thread, run_calls, chan, recv, exit,
                   clones, reportVars, checkVars, suid, wizard>>

\* Mutant of RecvOk: the result is put in front, so the list is in completion order
\* of the most recent first.
RecvOk_Prepend ==
    /\ pc = "recv"
    /\ chan # <<>>
    /\ results' = <<chan[1]>> \o results
    /\ recv' = [recv EXCEPT ![idx] = "Ok"]
    /\ chan' = <<>>
    /\ idx' = idx + 1
    /\ pc' = "loop"
    /\ UNCHANGED <<categories_filter, checks, collectors, collect_calls, thread,
                   run_calls, elapsed, exit, clones, reportVars, checkVars, suid, wizard>>

\* engine.rs 62: Ok(result) => results.push(result)
RecvOk ==
    /\ pc = "recv"
    /\ chan # <<>>
    /\ results' = Append(results, chan[1])
    /\ recv' = [recv EXCEPT ![idx] = "Ok"]
    /\ chan' = <<>>
    /\ idx' = idx + 1
    /\ pc' = "loop"
    /\ UNCHANGED <<categories_filter, checks, collectors, collect_calls, thread,
                   run_calls, elapsed, exit, clones, reportVars, checkVars, suid, wizard>>

\* Mutant of RecvTimeout: after the Skip is recorded the same check is tried again.
RecvTimeout_Retry ==
    /\ pc = "recv"
    /\ chan = <<>>
    /\ elapsed = TimeoutSecs
    /\ results' = Append(results, TimeoutResult(checks[idx]))
    /\ recv' = [recv EXCEPT ![idx] = "Timeout"]
    /\ pc' = "loop"
    /\ UNCHANGED <<categories_filter, checks, collectors, collect_calls, idx, thread,
                   run_calls, chan, elapsed, exit, clones, reportVars, checkVars, suid,
                   wizard>>

\* engine.rs 63-73 on Err(RecvTimeoutError::Timeout): the budget is used up and
\* nothing has arrived.
RecvTimeout ==
    /\ pc = "recv"
    /\ chan = <<>>
    /\ elapsed = TimeoutSecs
    /\ results' = Append(results, TimeoutResult(checks[idx]))
    /\ recv' = [recv EXCEPT ![idx] = "Timeout"]
    /\ idx' = idx + 1
    /\ pc' = "loop"
    /\ UNCHANGED <<categories_filter, checks, collectors, collect_calls, thread,
                   run_calls, chan, elapsed, exit, clones, reportVars, checkVars, suid,
                   wizard>>

\* engine.rs 63-73 on Err(RecvTimeoutError::Disconnected): the sender was dropped
\* by the panicking thread and nothing was sent.
RecvDisconnected ==
    /\ pc = "recv"
    /\ chan = <<>>
    /\ thread[idx] = "panicked"
    /\ results' = Append(results, TimeoutResult(checks[idx]))
    /\ recv' = [recv EXCEPT ![idx] = "Disconnected"]
    /\ idx' = idx + 1
    /\ pc' = "loop"
    /\ UNCHANGED <<categories_filter, checks, collectors, collect_calls, thread,
                   run_calls, chan, elapsed, exit, clones, reportVars, checkVars, suid,
                   wizard>>

\* The for loop ends; the closure given to thread::scope returns.
LoopEnd ==
    /\ pc = "loop"
    /\ idx > Len(checks)
    /\ pc' = "join"
    /\ UNCHANGED <<categories_filter, checks, collectors, collect_calls, idx, results,
                   thread, run_calls, chan, elapsed, recv, exit,
                   clones, reportVars, checkVars, suid, wizard>>

\* thread::scope waits until every spawned thread has finished.
AllThreadsEnded == \A i \in Positions : thread[i] \notin {"running", "hung"}

\* thread::scope returns and run_all returns results: no scoped thread panicked.
ScopeReturn ==
    /\ pc = "join"
    /\ AllThreadsEnded
    /\ \A i \in Positions : thread[i] # "panicked"
    /\ pc' = "returned"
    /\ UNCHANGED <<categories_filter, checks, collectors, collect_calls, idx, results,
                   thread, run_calls, chan, elapsed, recv, exit,
                   clones, reportVars, checkVars, suid, wizard>>

\* thread::scope panics ("a scoped thread panicked"): run_all unwinds.
ScopePanic ==
    /\ pc = "join"
    /\ AllThreadsEnded
    /\ \E i \in Positions : thread[i] = "panicked"
    /\ pc' = "panicked"
    /\ UNCHANGED <<categories_filter, checks, collectors, collect_calls, idx, results,
                   thread, run_calls, chan, elapsed, recv, exit,
                   clones, reportVars, checkVars, suid, wizard>>

\* ------------------------------------------------------------------- main

\* Mutant of ExitCode: the warning is tested before the failure.
ExitCode_WarnFirst(strict, rs) ==
    IF strict
    THEN LET has_fail == \E k \in 1..Len(rs) : rs[k].status = "Fail"
             has_warn == \E k \in 1..Len(rs) : rs[k].status = "Warn"
         IN IF has_warn THEN 1 ELSE IF has_fail THEN 2 ELSE 0
    ELSE 0

\* main.rs 75-83: the exit code for the results of run_all.
ExitCode(strict, rs) ==
    IF strict
    THEN LET has_fail == \E k \in 1..Len(rs) : rs[k].status = "Fail"
             has_warn == \E k \in 1..Len(rs) : rs[k].status = "Warn"
         IN IF has_fail THEN 2 ELSE IF has_warn THEN 1 ELSE 0
    ELSE 0

\* main returns or calls std::process::exit. reporter.print, which only reads the
\* results, is not a step of its own.
MainExit(strict) ==
    /\ pc = "returned"
    /\ exit' = <<[strict |-> strict, code |-> ExitCode(strict, results)]>>
    /\ pc' = "exited"
    /\ UNCHANGED <<categories_filter, checks, collectors, collect_calls, idx, results,
                   thread, run_calls, chan, elapsed, recv,
                   clones, reportVars, checkVars, suid, wizard>>

Next ==
    \/ \E c \in CheckIds : Register(c)
    \/ RunAllEnter
    \/ \E snap \in Snapshots : CollectReturn(snap)
    \/ LoopContinue
    \/ LoopSpawn
    \/ \E i \in Positions : ThreadReturn(i)
    \/ \E i \in Positions : ThreadPanic(i)
    \/ \E i \in Positions : ThreadHang(i)
    \/ Tick
    \/ RecvOk
    \/ RecvTimeout
    \/ RecvDisconnected
    \/ LoopEnd
    \/ ScopeReturn
    \/ ScopePanic
    \/ \E strict \in BOOLEAN : MainExit(strict)

Spec == Init /\ [][Next]_vars

\* --------------------------------------------------------------- reporter

IsPass(r) == r.status = "Pass"
IsWarn(r) == r.status = "Warn"
IsFail(r) == r.status = "Fail"
IsSkip(r) == r.status = "Skip"

\* Mutant of Counts: the skip count filters on Fail, a copied line left unchanged.
Counts_SkipFromFail(rs) ==
    LET pass == Len(SelectSeq(rs, IsPass))
        warn == Len(SelectSeq(rs, IsWarn))
        fail == Len(SelectSeq(rs, IsFail))
        skip == Len(SelectSeq(rs, IsFail))
    IN <<pass, warn, fail, skip>>

\* Reporter::counts: four filtered counts, (pass, warn, fail, skip).
Counts(rs) ==
    LET pass == Len(SelectSeq(rs, IsPass))
        warn == Len(SelectSeq(rs, IsWarn))
        fail == Len(SelectSeq(rs, IsFail))
        skip == Len(SelectSeq(rs, IsSkip))
    IN <<pass, warn, fail, skip>>

\* An f32 greater than zero is <<m, s>>, the value m / 2^s with a mantissa of 24
\* bits, 2^23 <= m < 2^24; zero is <<0, 0>>.
F32MantissaBits == 24

\* n / 2^t rounded to the nearest integer, ties to the even one (IEEE 754 default).
RoundHalfEven(n, t) ==
    LET q == n \div (2^t)
        r == n % (2^t)
    IN IF 2 * r > 2^t \/ (2 * r = 2^t /\ q % 2 = 1) THEN q + 1 ELSE q

\* <<m, s>> with a mantissa that rounding carried to 2^24 brought back to 24 bits.
F32Renormalize(m, s) ==
    IF m = 2^F32MantissaBits THEN <<2^(F32MantissaBits - 1), s - 1>> ELSE <<m, s>>

RECURSIVE F32DivShift(_, _, _)
\* The least s >= s0 with n * 2^s / d >= 2^23.
F32DivShift(n, d, s0) ==
    IF n * 2^s0 >= 2^(F32MantissaBits - 1) * d THEN s0 ELSE F32DivShift(n, d, s0 + 1)

\* The f32 quotient n / d of two integers 0 <= n <= d, d > 0, each exactly an f32:
\* the exact quotient rounded to 24 bits, ties to even.
F32Div(n, d) ==
    IF n = 0 THEN <<0, 0>>
    ELSE LET s == F32DivShift(n, d, 0)
             q == (n * 2^s) \div d
             r == (n * 2^s) % d
             m == IF 2 * r > d \/ (2 * r = d /\ q % 2 = 1) THEN q + 1 ELSE q
         IN F32Renormalize(m, s)

RECURSIVE F32ExcessBits(_, _)
\* The least t >= t0 with p / 2^t < 2^24.
F32ExcessBits(p, t0) ==
    IF p \div (2^t0) < 2^F32MantissaBits THEN t0 ELSE F32ExcessBits(p, t0 + 1)

\* The f32 product of the f32 x and the small integer c: the exact product rounded
\* to 24 bits, ties to even.
F32Mul(x, c) ==
    IF x[1] = 0 THEN <<0, 0>>
    ELSE LET p == x[1] * c
             t == F32ExcessBits(p, 0)
         IN F32Renormalize(RoundHalfEven(p, t), x[2] - t)

\* f32::round: to the nearest integer, ties away from zero; here for 0 <= x with s >= 0.
F32Round(x) ==
    LET fl == x[1] \div (2^(x[2]))
        fr == x[1] % (2^(x[2]))
    IN IF 2 * fr >= 2^(x[2]) THEN fl + 1 ELSE fl

\* Reporter::score. total and max are f32 sums of 1.0 and 0.5, exact up to 2^23:
\* total is kept as the integer 2 * total, max as an integer.
Score(rs) ==
    LET scored == SelectSeq(rs, LAMBDA r : ~IsSkip(r))
        max    == Len(scored)
        total2 == 2 * Len(SelectSeq(scored, IsPass)) + Len(SelectSeq(scored, IsWarn))
    IN IF max = 0 THEN 100
       ELSE F32Round(F32Mul(F32Div(total2, 2 * max), 100))

\* The longest list handed to Reporter::counts.
MaxListLen == 4

\* The longest list handed to Reporter::score.
MaxScoreLen == 20

\* A result as the Reporter functions read it: its status.
StatusResult(st) == [status |-> st]

RECURSIVE Repeat(_, _)
Repeat(x, n) == IF n = 0 THEN <<>> ELSE <<x>> \o Repeat(x, n - 1)

\* Every list of results of length at most n.
ResultLists(n) ==
    UNION { [1..k -> {StatusResult(st) : st \in Status}] : k \in 0..n }

\* The list of p Pass, w Warn, f Fail and k Skip results, in that order.
BlockList(p, w, f, k) ==
    Repeat(StatusResult("Pass"), p) \o Repeat(StatusResult("Warn"), w)
        \o Repeat(StatusResult("Fail"), f) \o Repeat(StatusResult("Skip"), k)

\* The state of the other process parts while a Reporter function is exercised.
EngineIdle ==
    /\ categories_filter = <<>>
    /\ checks = <<>>
    /\ pc = "report"
    /\ collectors = <<>>
    /\ collect_calls = 0
    /\ idx = 0
    /\ results = <<>>
    /\ thread = [i \in Positions |-> "unspawned"]
    /\ run_calls = [i \in Positions |-> 0]
    /\ chan = <<>>
    /\ elapsed = 0
    /\ recv = [i \in Positions |-> "none"]
    /\ exit = <<>>
    /\ clones = [i \in Positions |-> <<>>]

engineVars == <<categories_filter, checks, pc, collectors, collect_calls, idx, results,
                thread, run_calls, chan, elapsed, recv, exit, clones>>

\* Reporter::counts(&rep_in)
CallCounts ==
    /\ pc = "report"
    /\ rep_out = <<>>
    /\ rep_out' = <<[call |-> "counts", ret |-> Counts(rep_in)]>>
    /\ UNCHANGED <<engineVars, rep_in, reporter, checkVars, suid, wizard>>

\* Reporter::score(&rep_in)
CallScore ==
    /\ pc = "report"
    /\ rep_out = <<>>
    /\ rep_out' = <<[call |-> "score", ret |-> Score(rep_in)]>>
    /\ UNCHANGED <<engineVars, rep_in, reporter, checkVars, suid, wizard>>

InitCounts ==
    /\ EngineIdle
    /\ rep_in \in ResultLists(MaxListLen)
    /\ rep_out = <<>>
    /\ reporter = DefaultReporter
    /\ ChecksIdle
    /\ SuidIdle
    /\ WizardIdle

InitScore ==
    /\ EngineIdle
    /\ \E p \in 0..MaxScoreLen : \E w \in 0..(MaxScoreLen - p) :
       \E f \in 0..(MaxScoreLen - p - w) : \E k \in 0..(MaxScoreLen - p - w - f) :
          rep_in = BlockList(p, w, f, k)
    /\ rep_out = <<>>
    /\ reporter = DefaultReporter
    /\ ChecksIdle
    /\ SuidIdle
    /\ WizardIdle

NextCounts == CallCounts
NextScore == CallScore

SpecCounts == InitCounts /\ [][NextCounts]_vars
SpecScore == InitScore /\ [][NextScore]_vars

\* ------------------------------------------------------------- rendering

\* report.rs 42 and model.rs 4: the status in capitals.
StatusTag(status) ==
    CASE status = "Pass" -> "PASS"
      [] status = "Warn" -> "WARN"
      [] status = "Fail" -> "FAIL"
      [] status = "Skip" -> "SKIP"

\* report.rs 41 and 58: the result is left out unless the Reporter is verbose.
Hidden(r) == IsPass(r) \/ IsSkip(r)

\* [String]::join(", ")
Join(strs) ==
    [k \in 1..(IF Len(strs) = 0 THEN 0 ELSE 2 * Len(strs) - 1) |->
        IF k % 2 = 1 THEN strs[(k + 1) \div 2] ELSE ", "]

\* report.rs 42-48: the lines of one result, each line the tuple of its pieces.
TextEntry(r) ==
    << <<"[", StatusTag(r.status), "] ", r.title>>,
       <<"  id: ", r.id>> >>
    \o (IF r.categories # <<>> THEN << <<"  categories: ">> \o Join(r.categories) >>
        ELSE <<>>)
    \o << <<"  reason: ">> \o r.reason >>
    \o (IF r.remediation # <<>> THEN << <<"  remediation: ">> \o r.remediation >>
        ELSE <<>>)
    \o (IF r.evidence # <<>> THEN << <<"  evidence: ">> \o r.evidence >> ELSE <<>>)
    \o << <<>> >>

\* report.rs 40-49: the lines of the results the loop does not skip.
RECURSIVE TextEntries(_, _)
TextEntries(verbose, rs) ==
    IF rs = <<>> THEN <<>>
    ELSE (IF ~verbose /\ Hidden(Head(rs)) THEN <<>> ELSE TextEntry(Head(rs)))
         \o TextEntries(verbose, Tail(rs))

\* Mutant of RenderText: the header is computed from the results that are shown.
RenderText_HeaderOfShown(verbose, rs) ==
    LET shown == SelectSeq(rs, LAMBDA r : verbose \/ ~Hidden(r))
        c == Counts(shown)
        score == Score(shown)
    IN << <<"VPS Audit Results">>,
          <<"=================">>,
          <<"Score: ", ToString(score), " / 100">>,
          <<"PASS=", ToString(c[1]), ", WARN=", ToString(c[2]),
            ", FAIL=", ToString(c[3]), ", SKIP=", ToString(c[4])>> >>
       \o TextEntries(verbose, rs)

\* Reporter::render_text: the lines of the text.
RenderText(verbose, rs) ==
    LET c == Counts(rs)
        score == Score(rs)
    IN << <<"VPS Audit Results">>,
          <<"=================">>,
          <<"Score: ", ToString(score), " / 100">>,
          <<"PASS=", ToString(c[1]), ", WARN=", ToString(c[2]),
            ", FAIL=", ToString(c[3]), ", SKIP=", ToString(c[4])>> >>
       \o TextEntries(verbose, rs)

\* serde's Serialize of CheckResult: the fields in their order, the status in
\* capitals, None as null (the empty Option).
JsonOf(r) ==
    [id |-> r.id, title |-> r.title, categories |-> r.categories,
     status |-> StatusTag(r.status), reason |-> r.reason,
     remediation |-> r.remediation, evidence |-> r.evidence]

\* Reporter::render_json: the array of the results the filter keeps.
RenderJson(verbose, rs) ==
    LET out == SelectSeq(rs, LAMBDA r : verbose \/ ~Hidden(r))
    IN [k \in 1..Len(out) |-> JsonOf(out[k])]

\* Reporter::render
Render(rep, rs) ==
    IF rep.format = "Text" THEN RenderText(rep.verbose, rs)
    ELSE RenderJson(rep.verbose, rs)

\* The longest list handed to Reporter::render and Reporter::print.
MaxRenderLen == 3

\* The results the lists are made of: every result of two checks and a timeout.
RenderResults ==
    UNION { RunResults(c, snap) :
                c \in {"ssh.root_login", "system.reboot_required"}, snap \in Snapshots }
        \cup { TimeoutResult("system.reboot_required") }

\* reporter.render(&rep_in)
CallRender ==
    /\ pc = "report"
    /\ rep_out = <<>>
    /\ rep_out' = <<[call |-> "render", ret |-> <<Render(reporter, rep_in)>>,
                     stdout |-> <<>>]>>
    /\ UNCHANGED <<engineVars, rep_in, reporter, checkVars, suid, wizard>>

\* reporter.print(&rep_in): println! of the rendered text; nothing is returned.
CallPrint ==
    /\ pc = "report"
    /\ rep_out = <<>>
    /\ rep_out' = <<[call |-> "print", ret |-> <<>>,
                     stdout |-> <<Render(reporter, rep_in)>>]>>
    /\ UNCHANGED <<engineVars, rep_in, reporter, checkVars, suid, wizard>>

InitRender ==
    /\ EngineIdle
    /\ rep_in \in UNION { [1..k -> RenderResults] : k \in 0..MaxRenderLen }
    /\ rep_out = <<>>
    /\ reporter \in [verbose : BOOLEAN, format : {"Text", "Json"}]
    /\ ChecksIdle
    /\ SuidIdle
    /\ WizardIdle

NextRender == CallRender \/ CallPrint

SpecRender == InitRender /\ [][NextRender]_vars

\* ------------------------------------------------- a check run on its own

\* Collectors::collect on the machine.
ChkCollect ==
    /\ pc = "check"
    /\ collectors = <<>>
    /\ collectors' = <<Collect(host[1])>>
    /\ UNCHANGED <<categories_filter, checks, pc, collect_calls, idx, results, thread,
                   run_calls, chan, elapsed, recv, exit, clones, reportVars, host,
                   chk_out, suid, wizard>>

\* check.run(&collectors) of default check c returns.
ChkRun(c) ==
    /\ pc = "check"
    /\ collectors # <<>>
    /\ chk_out = <<>>
    /\ \E r \in DefaultRunResults(c, collectors[1]) :
          chk_out' = <<[check |-> c, by |-> "run", result |-> r]>>
    /\ UNCHANGED <<engineVars, reportVars, host, suid, wizard>>

\* engine.rs 63-72: the engine builds the result of check c in place of its run.
ChkTimeout(c) ==
    /\ pc = "check"
    /\ collectors # <<>>
    /\ chk_out = <<>>
    /\ chk_out' = <<[check |-> c, by |-> "engine", result |-> TimeoutResult(c)]>>
    /\ UNCHANGED <<engineVars, reportVars, host, suid, wizard>>

InitChecks ==
    /\ categories_filter = <<>>
    /\ checks = <<>>
    /\ pc = "check"
    /\ collectors = <<>>
    /\ collect_calls = 0
    /\ idx = 0
    /\ results = <<>>
    /\ thread = [i \in Positions |-> "unspawned"]
    /\ run_calls = [i \in Positions |-> 0]
    /\ chan = <<>>
    /\ elapsed = 0
    /\ recv = [i \in Positions |-> "none"]
    /\ exit = <<>>
    /\ clones = [i \in Positions |-> <<>>]
    /\ ReporterIdle
    /\ \E h \in Hosts : host = <<h>>
    /\ chk_out = <<>>
    /\ SuidIdle
    /\ WizardIdle

NextChecks ==
    \/ ChkCollect
    \/ \E k \in 1..Len(DefaultChecks) : ChkRun(DefaultChecks[k])
    \/ \E k \in 1..Len(DefaultChecks) : ChkTimeout(DefaultChecks[k])

SpecChecks == InitChecks /\ [][NextChecks]_vars

\* ------------------------------------------- SuidFilesCheck in the engine

\* The walk is followed file by file for its first WalkWindow files and from
\* WalkWindow files before max_files on; in between it advances by WalkStride.
WalkWindow == 3
WalkStride == MaxFiles - WalkWindow

\* The most suspicious files the model counts.
MaxSuspicious == 2

\* The registry position of SuidFilesCheck is i and its thread is in run.
SuidRunning(i) ==
    /\ i <= Len(checks)
    /\ checks[i] = "files.suid_suspicious"
    /\ thread[i] = "running"

\* files.rs 13-17: run starts in its thread and takes start_time.
SuidStart(i) ==
    /\ SuidRunning(i)
    /\ suid.phase = "unstarted"
    /\ suid' = [suid EXCEPT !.phase = "walk", !.started_at = elapsed]
    /\ UNCHANGED <<engineVars, reportVars, checkVars, wizard>>

\* More than budget has passed since start_time.  While the engine waits for the
\* check, its clock must show BudgetSecs seconds since start_time was taken, and
\* which of the two budgets runs out first within that second is open; once the
\* engine has given up, any time may pass.
SuidBudgetPasses(i) ==
    /\ SuidRunning(i)
    /\ suid.phase \in {"walk", "after"}
    /\ ~suid.over
    /\ ReceiverAlive(i) => elapsed - suid.started_at >= BudgetSecs
    /\ suid' = [suid EXCEPT !.over = TRUE]
    /\ UNCHANGED <<engineVars, reportVars, checkVars, wizard>>

\* files.rs 45-64: one turn of the loop on a file that is counted: the loop is left
\* at either limit, and else the file may be a suspicious SUID file.
SuidVisit(i) ==
    /\ SuidRunning(i)
    /\ suid.phase = "walk"
    /\ suid.visited_files % WalkStride < WalkWindow
    /\ LET visited_files == suid.visited_files + 1 IN
       IF visited_files >= MaxFiles \/ suid.over
       THEN suid' = [suid EXCEPT !.visited_files = visited_files, !.phase = "after",
                                 !.hit_max = visited_files >= MaxFiles,
                                 !.hit_time = suid.over]
       ELSE \E suspicious \in BOOLEAN :
                /\ suspicious => suid.suspicious_count < MaxSuspicious
                /\ suid' = [suid EXCEPT !.visited_files = visited_files,
                                        !.suspicious_count =
                                            IF suspicious THEN @ + 1 ELSE @]
    /\ UNCHANGED <<engineVars, reportVars, checkVars, wizard>>

\* WalkStride turns of the loop within the budget, on files none of which is a
\* suspicious SUID file and the last of which is not yet the max_files-th.
SuidVisitMany(i) ==
    /\ SuidRunning(i)
    /\ suid.phase = "walk"
    /\ ~suid.over
    /\ suid.visited_files + WalkStride < MaxFiles
    /\ suid' = [suid EXCEPT !.visited_files = @ + WalkStride]
    /\ UNCHANGED <<engineVars, reportVars, checkVars, wizard>>

\* files.rs 40-44: the walk has no further entry and the loop ends.
SuidWalkEnds(i) ==
    /\ SuidRunning(i)
    /\ suid.phase = "walk"
    /\ suid' = [suid EXCEPT !.phase = "after", !.ended = TRUE]
    /\ UNCHANGED <<engineVars, reportVars, checkVars, wizard>>

\* files.rs 66-75 and engine.rs 57-58: run reads the clock once more, builds its
\* result and returns it, and the thread sends it if the receiver is still there.
SuidReturn(i) ==
    /\ SuidRunning(i)
    /\ suid.phase = "after"
    /\ LET r == SuidFilesResult(suid.visited_files, suid.suspicious_count, suid.over) IN
          /\ suid' = [suid EXCEPT !.phase = "done", !.ret = <<r>>]
          /\ chan' = IF ReceiverAlive(i) THEN <<r>> ELSE chan
    /\ thread' = [thread EXCEPT ![i] = "finished"]
    /\ UNCHANGED <<categories_filter, checks, pc, collectors, collect_calls, idx,
                   results, run_calls, elapsed, recv, exit, clones, reportVars, checkVars,
                   wizard>>

\* An engine with SuidFilesCheck registered.
InitSuid ==
    /\ categories_filter \in Filters
    /\ checks = <<"files.suid_suspicious">>
    /\ pc = "new"
    /\ collectors = <<>>
    /\ collect_calls = 0
    /\ idx = 0
    /\ results = <<>>
    /\ thread = [i \in Positions |-> "unspawned"]
    /\ run_calls = [i \in Positions |-> 0]
    /\ chan = <<>>
    /\ elapsed = 0
    /\ recv = [i \in Positions |-> "none"]
    /\ exit = <<>>
    /\ clones = [i \in Positions |-> <<>>]
    /\ ReporterIdle
    /\ ChecksIdle
    /\ SuidIdle
    /\ WizardIdle

NextSuid ==
    \/ RunAllEnter
    \/ \E snap \in Snapshots : CollectReturn(snap)
    \/ LoopContinue
    \/ LoopSpawn
    \/ \E i \in Positions : SuidStart(i)
    \/ \E i \in Positions : SuidBudgetPasses(i)
    \/ \E i \in Positions : SuidVisit(i)
    \/ \E i \in Positions : SuidVisitMany(i)
    \/ \E i \in Positions : SuidWalkEnds(i)
    \/ \E i \in Positions : SuidReturn(i)
    \/ Tick
    \/ RecvOk
    \/ RecvTimeout
    \/ LoopEnd
    \/ ScopeReturn

SpecSuid == InitSuid /\ [][NextSuid]_vars

\* ------------------------------------------------- the interactive wizard

\* main.rs 88: the categories interactive_select_categories offers.
AllCategories == <<"security", "performance", "config", "linux", "network">>

\* The boxes the user may tick in one prompt: positions of AllCategories.
Selections == { {}, {2}, {3}, {2, 5} }

\* main.rs 86-102, interactive_select_categories: None for an empty selection, else
\* the names that were ticked.
InteractiveSelectCategories(selections) ==
    IF selections = {} THEN <<>> ELSE << { AllCategories[i] : i \in selections } >>

\* The default checks the engine model can run, in the order of
\* register_default_checks.
RegisteredDefaults == SelectSeq(DefaultChecks, LAMBDA c : c \in CheckIds)

\* engine.rs 45-75 from position i on, with snapshot snap: the lists the loop can
\* push, a check's own result or the engine's Skip for each selected check.
RECURSIVE LoopResults(_, _)
LoopResults(snap, i) ==
    IF i > Len(checks)
    THEN { <<>> }
    ELSE IF ~MatchesFilter(checks[i])
         THEN LoopResults(snap, i + 1)
         ELSE { <<r>> \o rest :
                  r \in RunResults(checks[i], snap) \cup { TimeoutResult(checks[i]) },
                  rest \in LoopResults(snap, i + 1) }

\* engine.rs 38-79, a call of run_all as one step: it returns a list, or it panics
\* or never returns when a check that was run panics or hangs.
RunAllOutcomes ==
    { [end |-> "returned", results |-> rs] :
         rs \in UNION { LoopResults(snap, 1) : snap \in Snapshots } }
    \cup { [end |-> e, results |-> <<>>] :
             e \in IF \E i \in 1..Len(checks) : MatchesFilter(checks[i])
                   THEN {"panicked", "hung"} ELSE {} }

\* main.rs 66-69: engine.run_all() of main, and reporter.print, which only reads.
MainRunAll ==
    /\ pc = "main"
    /\ \E o \in RunAllOutcomes :
          IF o.end = "returned"
          THEN results' = o.results /\ pc' = "printed"
          ELSE results' = results /\ pc' = o.end
    /\ UNCHANGED <<categories_filter, checks, collectors, collect_calls, idx, thread,
                   run_calls, chan, elapsed, recv, exit, clones, reportVars, checkVars,
                   suid, wizard>>

\* main.rs 71-73 and 104-106: interactive_wizard is called and copies the results.
WizardEnter ==
    /\ pc = "printed"
    /\ wizard' = <<[current_results |-> results]>>
    /\ pc' = "wizard"
    /\ UNCHANGED <<categories_filter, checks, collectors, collect_calls, idx, results,
                   thread, run_calls, chan, elapsed, recv, exit, clones, reportVars,
                   checkVars, suid>>

\* Mutant of WizardRerun: the new results are also written over those of main.
WizardRerun_OverMainResults ==
    /\ pc = "wizard"
    /\ \E o \in RunAllOutcomes :
          IF o.end = "returned"
          THEN /\ wizard' = <<[current_results |-> o.results]>>
               /\ results' = o.results
               /\ pc' = pc
          ELSE wizard' = wizard /\ results' = results /\ pc' = o.end
    /\ UNCHANGED <<categories_filter, checks, collectors, collect_calls, idx,
                   thread, run_calls, chan, elapsed, recv, exit, clones, reportVars,
                   checkVars, suid>>

\* main.rs 141-144, 'Rerun checks': current_results = engine.run_all(), then
\* reporter.print.
WizardRerun ==
    /\ pc = "wizard"
    /\ \E o \in RunAllOutcomes :
          IF o.end = "returned"
          THEN /\ wizard' = <<[current_results |-> o.results]>>
               /\ results' = results
               /\ pc' = pc
          ELSE wizard' = wizard /\ results' = results /\ pc' = o.end
    /\ UNCHANGED <<categories_filter, checks, collectors, collect_calls, idx,
                   thread, run_calls, chan, elapsed, recv, exit, clones, reportVars,
                   checkVars, suid>>

\* main.rs 145-149, 'Choose categories': the engine is replaced by a new one with
\* the categories chosen and the default checks.
WizardChooseCategories ==
    /\ pc = "wizard"
    /\ \E selections \in Selections :
          categories_filter' = InteractiveSelectCategories(selections)
    /\ checks' = RegisteredDefaults
    /\ UNCHANGED <<pc, collectors, collect_calls, idx, results, thread, run_calls, chan,
                   elapsed, recv, exit, clones, reportVars, checkVars, suid, wizard>>

\* main.rs 150-153: 'Exit', or no to 'Continue?': interactive_wizard returns. The
\* views and 'Save report' (main.rs 126-140) only read current_results.
WizardExit ==
    /\ pc = "wizard"
    /\ pc' = "returned"
    /\ UNCHANGED <<categories_filter, checks, collectors, collect_calls, idx, results,
                   thread, run_calls, chan, elapsed, recv, exit, clones, reportVars,
                   checkVars, suid, wizard>>

\* main.rs 59-64 in interactive mode: the categories were chosen at the prompt and
\* the engine has its default checks.
InitWizard ==
    /\ \E selections \in Selections :
          categories_filter = InteractiveSelectCategories(selections)
    /\ checks = RegisteredDefaults
    /\ pc = "main"
    /\ collectors = <<>>
    /\ collect_calls = 0
    /\ idx = 0
    /\ results = <<>>
    /\ thread = [i \in Positions |-> "unspawned"]
    /\ run_calls = [i \in Positions |-> 0]
    /\ chan = <<>>
    /\ elapsed = 0
    /\ recv = [i \in Positions |-> "none"]
    /\ exit = <<>>
    /\ clones = [i \in Positions |-> <<>>]
    /\ ReporterIdle
    /\ ChecksIdle
    /\ SuidIdle
    /\ WizardIdle

NextWizard ==
    \/ MainRunAll
    \/ WizardEnter
    \/ WizardRerun
    \/ WizardChooseCategories
    \/ WizardExit
    \/ \E strict \in BOOLEAN : MainExit(strict)

SpecWizard == InitWizard /\ [][NextWizard]_vars

\* ----------------------------------------------------------------- claims

\* The strings of the model: the categories of the checks and the wanted strings.
ModelStrings ==
    UNION { { Categories(c)[k] : k \in 1..Len(Categories(c)) } : c \in CheckIds }
        \cup WantedStrings

\* Each string with every ASCII capital replaced by its small letter.
LowerCased ==
    [str \in ModelStrings |->
        [k \in 1..Len(Chars(str)) |-> ToAsciiLowercase(Chars(str)[k])]]

\* The selection the specification states, per filter and check: no filter, or the
\* check's categories and the wanted strings have a member in common once case is
\* ignored.
WantedBy ==
    [flt \in Filters |-> [c \in CheckIds |->
        \/ flt = <<>>
        \/ { LowerCased[Categories(c)[k]] : k \in 1..Len(Categories(c)) }
              \cap { LowerCased[w] : w \in flt[1] } # {}]]

Wanted(c) == WantedBy[categories_filter][c]

\* The selected checks, in registration order.
SelectedChecks == SelectSeq(checks, Wanted)

\* The positions of the registry whose recv_timeout has returned.
Received == { j \in 1..Len(checks) : recv[j] # "none" }

\* The place in results of the result of registry position i.
ResultIndex(i) == Cardinality({ j \in Received : j <= i })

RunAllReturned == pc \in {"returned", "exited"}

LoopOver == pc \in {"join", "returned", "exited", "panicked"}

\* C1: the list run_all returns has exactly one result per selected check, and the
\* k-th result carries the id, title and categories of the k-th selected check in
\* registration order, whether the check answered in time or timed out.
C1_OneResultPerSelectedInOrder ==
    RunAllReturned =>
        /\ Len(results) = Len(SelectedChecks)
        /\ \A k \in 1..Len(results) :
              /\ results[k].id = SelectedChecks[k]
              /\ results[k].title = Title(SelectedChecks[k])
              /\ results[k].categories = Categories(SelectedChecks[k])

\* run_all has returned two results of two different checks, the first a timeout
\* and the second delivered in time.
C1_Witness ==
    /\ pc = "returned"
    /\ Len(results) = 2
    /\ results[1].id # results[2].id
    /\ recv[1] = "Timeout"
    /\ recv[2] = "Ok"

\* C2: a check whose run never returns does not block the run: once the loop is
\* over and every other thread has ended, run_all can return its results.
C2_HungCheckDoesNotBlock ==
    ( /\ pc = "join"
      /\ \E i \in Positions : thread[i] = "hung"
      /\ \A i \in Positions : thread[i] \in {"unspawned", "finished", "hung"} )
    => ENABLED ScopeReturn

\* C3: a panic of a check's run never propagates out of run_all.
C3_PanicNeverLeavesRunAll ==
    (\E i \in Positions : thread[i] = "panicked") => pc # "panicked"

\* C4: for a check whose result did not arrive within the 5 second budget (the
\* budget ran out, or the sender was dropped without a result) the engine records
\* exactly one result: status Skip, a reason containing 5, a remediation, no
\* evidence, and the check's own id, title and categories.
C4_TimeoutRecordsSyntheticSkip ==
    /\ pc # "recv" => Len(results) = Cardinality(Received)
    /\ \A i \in 1..Len(checks) :
          recv[i] \in {"Timeout", "Disconnected"} =>
              /\ ResultIndex(i) \in 1..Len(results)
              /\ LET r == results[ResultIndex(i)] IN
                    /\ r.status = "Skip"
                    /\ \E n \in 1..Len(r.reason) : r.reason[n] = "5"
                    /\ r.remediation # <<>>
                    /\ r.evidence = <<>>
                    /\ r.id = checks[i]
                    /\ r.title = Title(checks[i])
                    /\ r.categories = Categories(checks[i])

\* The budget of the second of two checks ran out after the first delivered.
C4_Witness ==
    /\ Len(checks) = 2
    /\ recv[1] = "Ok"
    /\ recv[2] = "Timeout"
    /\ Len(results) = 2

\* C5: a registered check is run and has a result iff the filter is absent or one
\* of its categories equals, ignoring ASCII case, a wanted category; an excluded
\* check is never run and has no entry; an empty wanted set selects nothing.
C5_SelectedIffCategoryMatches ==
    /\ \A i \in 1..Len(checks) :
          (run_calls[i] > 0 \/ recv[i] # "none") => Wanted(checks[i])
    /\ \A c \in CheckIds :
          ~Wanted(c) => \A k \in 1..Len(results) : results[k].id # c
    /\ LoopOver =>
          \A i \in 1..Len(checks) :
              Wanted(checks[i]) => (run_calls[i] > 0 /\ recv[i] # "none")
    /\ RunAllReturned =>
          { results[k].id : k \in 1..Len(results) }
              = { checks[i] : i \in { j \in 1..Len(checks) : Wanted(checks[j]) } }
    /\ (categories_filter = << {} >>) => (results = <<>> /\ \A i \in Positions : run_calls[i] = 0)

\* With the wanted category CONFIG the reboot check was passed over and the ssh
\* check, whose category is config, was run and has the only result.
C5_Witness ==
    /\ pc = "returned"
    /\ categories_filter = << {"CONFIG"} >>
    /\ checks = <<"system.reboot_required", "ssh.root_login">>
    /\ run_calls[1] = 0
    /\ run_calls[2] = 1
    /\ Len(results) = 1
    /\ results[1].id = "ssh.root_login"

\* The number of results of rs with status st.
NumberOf(rs, st) == Cardinality({ k \in 1..Len(rs) : rs[k].status = st })

\* 100 x (Pass + Warn / 2) / (results that are not Skip), rounded half away from
\* zero, and 100 when every result is Skip.
RoundedPercentage(rs) ==
    LET n == Len(rs) - NumberOf(rs, "Skip")
        k == 2 * NumberOf(rs, "Pass") + NumberOf(rs, "Warn")
    IN IF n = 0 THEN 100 ELSE (100 * k + n) \div (2 * n)

\* C6: Reporter::score returns an integer in 0..100 that is 100 for a list with no
\* result other than Skip and otherwise the rounded percentage.
C6_ScoreIsRoundedPercentage ==
    (rep_out # <<>> /\ rep_out[1].call = "score") =>
        /\ rep_out[1].ret \in 0..100
        /\ rep_out[1].ret = RoundedPercentage(rep_in)

\* The list rs with its elements in the order the permutation f gives.
Permuted(rs, f) == [k \in 1..Len(rs) |-> rs[f[k]]]

\* C7: Reporter::counts returns, per status, the number of results with that
\* status; the four add up to the length of the list; and every permutation of the
\* list has the same counts.
C7_CountsPartitionAnyOrder ==
    (rep_out # <<>> /\ rep_out[1].call = "counts") =>
        LET c == rep_out[1].ret IN
        /\ c[1] = NumberOf(rep_in, "Pass")
        /\ c[2] = NumberOf(rep_in, "Warn")
        /\ c[3] = NumberOf(rep_in, "Fail")
        /\ c[4] = NumberOf(rep_in, "Skip")
        /\ c[1] + c[2] + c[3] + c[4] = Len(rep_in)
        /\ \A f \in Permutations(1..Len(rep_in)) : Counts(Permuted(rep_in, f)) = c

\* counts has been applied to a list holding every status, not grouped by status.
C7_Witness ==
    /\ rep_out # <<>>
    /\ rep_out[1].call = "counts"
    /\ rep_out[1].ret = <<1, 1, 1, 1>>
    /\ rep_in[1].status = "Skip"
    /\ rep_in[4].status = "Pass"

\* C8: with --strict the exit code is 2 if a result is Fail, 1 if none is Fail and
\* one is Warn, 0 if every result is Pass or Skip.
C8_StrictExitCodes ==
    (exit # <<>> /\ exit[1].strict) =>
        LET any_fail == \E k \in 1..Len(results) : results[k].status = "Fail"
            any_warn == \E k \in 1..Len(results) : results[k].status = "Warn"
        IN /\ any_fail => exit[1].code = 2
           /\ (~any_fail /\ any_warn) => exit[1].code = 1
           /\ (\A k \in 1..Len(results) : results[k].status \in {"Pass", "Skip"})
                  => exit[1].code = 0

\* A strict run with a Warn and a Fail among its results has exited with code 2.
C8_Witness ==
    /\ exit # <<>>
    /\ exit[1].strict
    /\ exit[1].code = 2
    /\ \E k \in 1..Len(results) : results[k].status = "Warn"
    /\ \E k \in 1..Len(results) : results[k].status = "Fail"

\* C9: within one run_all call run is called exactly once on each selected check and
\* never on an excluded one; a check that timed out has one result and is not
\* started again.
C9_RunOncePerSelectedCheck ==
    /\ \A i \in Positions :
          /\ run_calls[i] <= 1
          /\ run_calls[i] = 1 => (i <= Len(checks) /\ Wanted(checks[i]))
          /\ recv[i] = "Timeout" => run_calls[i] = 1
    /\ LoopOver =>
          /\ \A i \in 1..Len(checks) :
                run_calls[i] = IF Wanted(checks[i]) THEN 1 ELSE 0
          /\ Len(results) = Cardinality({ i \in 1..Len(checks) : run_calls[i] = 1 })

\* run_all has returned after one check timed out and another was passed over.
C9_Witness ==
    /\ pc = "returned"
    /\ \E i \in 1..Len(checks) : recv[i] = "Timeout" /\ thread[i] = "finished"
    /\ \E j \in 1..Len(checks) : ~Wanted(checks[j]) /\ run_calls[j] = 0

\* C10: a run_all call calls Collectors::collect exactly once, and the snapshot
\* exists before the run of any check starts.
C10_CollectOnceBeforeAnyCheck ==
    /\ pc = "new" => collect_calls = 0
    /\ pc \notin {"new", "report"} => collect_calls = 1
    /\ \A i \in Positions :
          (thread[i] # "unspawned" \/ run_calls[i] > 0) =>
              (collectors # <<>> /\ pc \notin {"new", "collect"})
    /\ pc = "collect" => collectors = <<>>

\* The first selected check is running on the snapshot of the one collect call.
C10_Witness ==
    /\ pc = "recv"
    /\ thread[1] = "running"
    /\ run_calls[1] = 1
    /\ collectors # <<>>
    /\ collect_calls = 1

\* C11: within one run_all call the snapshot handed to every check's run equals the
\* one collected at the start of the call, and no step, a step of an abandoned
\* check included, changes the collected snapshot or the one a check was handed.
C11_ChecksObserveTheCollectedSnapshot ==
    [][ /\ \A i \in Positions : clones'[i] # <<>> => clones'[i] = collectors'
        /\ collectors # <<>> => collectors' = collectors
        /\ \A i \in Positions : clones[i] # <<>> => clones'[i] = clones[i] ]_vars

\* The first check is abandoned and still running on its clone while the second
\* check has finished on its own clone of the same snapshot.
C11_Witness ==
    /\ collectors # <<>>
    /\ recv[1] = "Timeout"
    /\ thread[1] = "running"
    /\ thread[2] = "finished"
    /\ clones[1] = collectors
    /\ clones[2] = collectors

\* The machine cannot give the effective sshd configuration: `sshd -T` ran and
\* failed, or neither the sshd command nor /etc/ssh/sshd_config is there.
SshdUnavailable ==
    /\ host # <<>>
    /\ \/ host[1].sshd.cmd = "exit_failure"
       \/ host[1].sshd.cmd = "spawn_error" /\ host[1].sshd.file = <<>>

\* The text of a reason has at least one character.
NonEmptyText(reason) == \E k \in 1..Len(reason) : reason[k] # ""

\* C12: every result a default check returns on any snapshot, and every result the
\* engine builds on a timeout, has one status out of Pass, Warn, Fail, Skip and a
\* reason that is not the empty string, a Skip result included.
C12_StatusAndNonEmptyReason ==
    chk_out # <<>> =>
        /\ chk_out[1].result.status \in Status
        /\ NonEmptyText(chk_out[1].result.reason)
        /\ chk_out[1].result.id = chk_out[1].check

\* SshRootLoginCheck returned Skip on an sshd dump whose stderr is the empty text.
C12_Witness ==
    /\ chk_out # <<>>
    /\ chk_out[1].check = "ssh.root_login"
    /\ chk_out[1].by = "run"
    /\ chk_out[1].result.status = "Skip"
    /\ collectors[1].sshd # <<>>
    /\ collectors[1].sshd[1].stderr = <<"">>

\* The ids of the results of run_all, in the order of the list.
ResultIds == [k \in 1..Len(results) |-> results[k].id]

\* C13: the category filter keeps the registration order of the checks it selects,
\* and the same filter applied to the selected checks selects the same list again.
C13_FilterOrderPreservingIdempotent ==
    RunAllReturned =>
        /\ \A i \in Received : ResultIds[ResultIndex(i)] = checks[i]
        /\ \A i \in Received : \A j \in Received :
              i < j => ResultIndex(i) < ResultIndex(j)
        /\ SelectSeq(ResultIds, MatchesFilter) = ResultIds

\* A filter selected the second of two registered checks and left the first out.
C13_Witness ==
    /\ RunAllReturned
    /\ categories_filter # <<>>
    /\ Len(checks) = 2
    /\ ~MatchesFilter(checks[1])
    /\ ResultIds = <<checks[2]>>

\* The checks of the registry whose run reads nothing but the snapshot.
PureChecks == {"ssh.root_login", "system.reboot_required"}

\* What each of them returns on each snapshot.
SnapshotResult ==
    [c \in PureChecks |-> [snap \in Snapshots |-> CHOOSE r \in RunResults(c, snap) : TRUE]]

\* C14 as stated: with the snapshot, the registry and the filter given, the result
\* run_all returns for a check that is a pure function of the snapshot is given too,
\* so that two executions on the same inputs return the same results for it.
C14_PureResultsDetermined ==
    RunAllReturned =>
        \A i \in Received :
            checks[i] \in PureChecks =>
                results[ResultIndex(i)] = SnapshotResult[checks[i]][collectors[1]]

\* C14, amended: the checks in the returned list and their order are given by the
\* registry and the filter; the result of a pure check is given by the snapshot in
\* every execution in which it is delivered within the timeout, and is the engine's
\* timeout result in every other.
C14_PureResultsDeterminedWhenDelivered ==
    RunAllReturned =>
        /\ ResultIds = SelectSeq(checks, MatchesFilter)
        /\ \A i \in Received :
              checks[i] \in PureChecks =>
                  results[ResultIndex(i)] =
                      IF recv[i] = "Ok" THEN SnapshotResult[checks[i]][collectors[1]]
                      ELSE TimeoutResult(checks[i])

\* Two pure checks were both delivered in time.
C14_Witness ==
    /\ RunAllReturned
    /\ Len(checks) = 2
    /\ checks[1] = "system.reboot_required"
    /\ checks[2] = "ssh.root_login"
    /\ recv[1] = "Ok"
    /\ recv[2] = "Ok"
    /\ Len(results) = 2
    /\ results[1].status = "Warn"

\* C15: when the run of a check returns after the engine's timeout for it has fired,
\* the step changes neither the result list nor the channel the engine is waiting
\* on for a later check; the entry of a timed-out check is the engine's Skip and
\* stays that entry, and the returned list has one entry per awaited check.
C15_LateResultIsDiscarded ==
    [][ /\ \A i \in Positions :
              (recv[i] = "Timeout" /\ thread[i] = "running" /\ thread'[i] = "finished")
                  => (results' = results /\ chan' = chan)
        /\ \A i \in Received :
              recv[i] = "Timeout" =>
                  /\ recv'[i] = "Timeout"
                  /\ results[ResultIndex(i)] = TimeoutResult(checks[i])
                  /\ Len(results') >= ResultIndex(i)
                  /\ results'[ResultIndex(i)] = results[ResultIndex(i)]
        /\ pc' = "returned" =>
              Len(results') = Cardinality({ j \in 1..Len(checks') : recv'[j] # "none" })
      ]_vars

\* The first check returned after its timeout, while or after the second check was
\* awaited; the list holds the Skip for the first and the second check's own result.
C15_Witness ==
    /\ pc = "returned"
    /\ Len(checks) = 2
    /\ checks[1] # checks[2]
    /\ recv[1] = "Timeout"
    /\ thread[1] = "finished"
    /\ recv[2] = "Ok"
    /\ Len(results) = 2
    /\ results[1] = TimeoutResult(checks[1])
    /\ results[2].id = checks[2]

\* C16: when SuidFilesCheck, run by the engine, leaves its walk because its own time
\* budget is exceeded, the result run_all returns for files.suid_suspicious is the
\* result the check built, a Warn for a partial scan, and not the engine's Skip.
C16_PartialScanIsRecorded ==
    (RunAllReturned /\ suid.phase = "done" /\ suid.hit_time) =>
        /\ results = suid.ret
        /\ results[1].status = "Warn"

\* C17: SuidFilesCheck::run returns Pass only if its walk ended with neither limit
\* hit and no suspicious file counted; if the loop was left at a limit it returns
\* Warn with a reason that gives the files visited and the budget in seconds; and
\* it never counts more than max_files files.
C17_PassOnlyAfterFullCleanWalk ==
    /\ suid.visited_files <= MaxFiles
    /\ suid.ret # <<>> =>
          LET r == suid.ret[1] IN
          /\ r.status \in {"Pass", "Warn"}
          /\ r.status = "Pass" =>
                /\ suid.ended
                /\ ~suid.hit_max
                /\ ~suid.hit_time
                /\ suid.visited_files < MaxFiles
                /\ suid.suspicious_count = 0
          /\ (suid.hit_max \/ suid.hit_time) =>
                /\ r.status = "Warn"
                /\ r.reason = <<"Partial scan (", ToString(suid.visited_files),
                                " files, ~", "5", "s budget) found ",
                                ToString(suid.suspicious_count),
                                " potential suspicious SUID files">>

\* The walk was left at its max_files-th file within the time budget, with no
\* suspicious file counted, and run returned.
C17_Witness ==
    /\ suid.ret # <<>>
    /\ suid.hit_max
    /\ ~suid.over
    /\ suid.visited_files = MaxFiles
    /\ suid.suspicious_count = 0
    /\ suid.ret[1].status = "Warn"

\* The three checks of checks/ssh.rs.
SshChecks == {"ssh.root_login", "ssh.password_auth", "ssh.port"}

\* C18: on a machine that cannot give the effective sshd configuration, collect still
\* returns a snapshot, the run of each of the three SSH checks on it returns, and
\* what it returns is Skip with a reason, never Pass, Warn or Fail.
C18_SshChecksSkipWithoutConfig ==
    (SshdUnavailable /\ pc = "check") =>
        /\ collectors = <<>> => ENABLED ChkCollect
        /\ collectors # <<>> =>
              \/ collectors[1].sshd = <<>>
              \/ ~collectors[1].sshd[1].ok
        /\ (collectors # <<>> /\ chk_out = <<>>) =>
              \A c \in SshChecks : ENABLED ChkRun(c)
        /\ (chk_out # <<>> /\ chk_out[1].check \in SshChecks) =>
              /\ chk_out[1].result.status = "Skip"
              /\ NonEmptyText(chk_out[1].result.reason)

\* SshPortCheck returned Skip on the snapshot of a machine whose `sshd -T` failed
\* although /etc/ssh/sshd_config can be read.
C18_Witness ==
    /\ SshdUnavailable
    /\ host[1].sshd.cmd = "exit_failure"
    /\ host[1].sshd.file # <<>>
    /\ chk_out # <<>>
    /\ chk_out[1].check = "ssh.port"
    /\ chk_out[1].by = "run"
    /\ chk_out[1].result.status = "Skip"

\* The results of rs that are neither Pass nor Skip, in the order of rs.
NotPassNorSkip(rs) == SelectSeq(rs, LAMBDA r : r.status \in {"Warn", "Fail"})

\* The text or the array a Reporter call produced: what render returned or what
\* print wrote.
Produced(out) == IF out.call = "render" THEN out.ret[1] ELSE out.stdout[1]

\* The lines of a text that begin with the given piece.
LinesWith(doc, piece) == SelectSeq(doc, LAMBDA l : l # <<>> /\ l[1] = piece)

\* C19: render and print leave the list they are given as it is; when the Reporter
\* is not verbose, the text and the JSON array both hold the results that are
\* neither Pass nor Skip, all of them and in the order of the list, and no other;
\* the score and the counts in the header of the text are those of the whole list.
C19_RenderHidesPassAndSkipOnly ==
    [][ /\ rep_in' = rep_in
        /\ reporter' = reporter
        /\ (rep_out = <<>> /\ rep_out' # <<>> /\ ~reporter.verbose) =>
              LET doc  == Produced(rep_out'[1])
                  kept == NotPassNorSkip(rep_in)
              IN IF reporter.format = "Json"
                 THEN /\ Len(doc) = Len(kept)
                      /\ \A k \in 1..Len(kept) :
                            /\ doc[k].id = kept[k].id
                            /\ doc[k].status = StatusTag(kept[k].status)
                            /\ doc[k].reason = kept[k].reason
                 ELSE /\ Len(LinesWith(doc, "[")) = Len(kept)
                      /\ Len(LinesWith(doc, "  id: ")) = Len(kept)
                      /\ Len(LinesWith(doc, "  reason: ")) = Len(kept)
                      /\ \A k \in 1..Len(kept) :
                            /\ LinesWith(doc, "[")[k] =
                                   <<"[", StatusTag(kept[k].status), "] ", kept[k].title>>
                            /\ LinesWith(doc, "  id: ")[k] = <<"  id: ", kept[k].id>>
                            /\ LinesWith(doc, "  reason: ")[k] =
                                   <<"  reason: ">> \o kept[k].reason
                      /\ LinesWith(doc, "Score: ") =
                             << <<"Score: ", ToString(Score(rep_in)), " / 100">> >>
                      /\ LinesWith(doc, "PASS=") =
                             << <<"PASS=", ToString(NumberOf(rep_in, "Pass")),
                                  ", WARN=", ToString(NumberOf(rep_in, "Warn")),
                                  ", FAIL=", ToString(NumberOf(rep_in, "Fail")),
                                  ", SKIP=", ToString(NumberOf(rep_in, "Skip"))>> >>
      ]_vars

\* A Reporter that is not verbose rendered the text of a list with a Pass, a Fail
\* and a Skip result: one result is shown and three are counted.
C19_Witness ==
    /\ pc = "report"
    /\ rep_out # <<>>
    /\ rep_out[1].call = "render"
    /\ ~reporter.verbose
    /\ reporter.format = "Text"
    /\ Len(rep_in) = 3
    /\ rep_in[1].status = "Pass"
    /\ rep_in[2].status = "Fail"
    /\ rep_in[3].status = "Skip"
    /\ Len(LinesWith(rep_out[1].ret[1], "  id: ")) = 1

\* C20: the engine appends its 'Check timed out after 5s' Skip for a check only in
\* a step taken when the whole budget has passed with nothing on the channel, and
\* never for a check whose run has already ended.
C20_TimeoutSkipOnlyAfterBudget ==
    [][ ( /\ pc = "recv"
          /\ recv'[idx] \in {"Timeout", "Disconnected"}
          /\ results' = Append(results, TimeoutResult(checks[idx])) )
        => ( /\ elapsed = TimeoutSecs
             /\ chan = <<>>
             /\ thread[idx] \in {"running", "hung"} ) ]_vars

\* The start values a readable /proc/sys/net/ipv4/ip_unprivileged_port_start gives as
\* a 32-bit unsigned integer, and the default taken when the file cannot be read.
ReadableStarts ==
    { f[1] : f \in { g \in UnprivilegedStartFiles : g # <<>> /\ g[1] # NotANumber } }
        \cup {1024}

\* The effective port of an available sshd configuration: 22 when the port value is
\* missing or is no 16-bit unsigned integer.
EffectivePort(sshd) ==
    IF sshd.port # <<>> /\ sshd.port[1] \in 0..65535 THEN sshd.port[1] ELSE 22

\* C23: when the sshd configuration is available, SshPortCheck returns Warn iff the
\* effective port is 22, Fail iff the port is not 22 and is >= the unprivileged-port
\* start value, and Pass iff the port is not 22 and is < that value, for every start
\* value readable as a 32-bit unsigned integer, and the reason states the comparison
\* of that port with that value.
C23_PortStatusFollowsStartValue ==
    ( /\ pc = "check"
      /\ collectors # <<>>
      /\ collectors[1].sshd # <<>>
      /\ collectors[1].sshd[1].ok
      /\ chk_out # <<>>
      /\ chk_out[1].check = "ssh.port"
      /\ chk_out[1].by = "run" )
    => LET r == chk_out[1].result
           port == EffectivePort(collectors[1].sshd[1])
       IN \E start \in ReadableStarts :
             /\ r.remediation = <<"Choose a port < ", ToString(start),
                                  " and not 22; update sshd_config and reload">>
             /\ r.status \in {"Warn", "Fail", "Pass"}
             /\ r.status = "Warn" <=> port = 22
             /\ r.status = "Fail" <=> (port # 22 /\ port >= start)
             /\ r.status = "Pass" <=> (port # 22 /\ port < start)
             /\ r.status = "Warn" => r.reason = <<"Using default SSH port 22">>
             /\ r.status = "Fail" =>
                   r.reason = <<"Using unprivileged port ", ToString(port),
                                " (>= ", ToString(start), ")">>
             /\ r.status = "Pass" =>
                   r.reason = <<"Using privileged non-default port ", ToString(port),
                                " (< ", ToString(start), ")">>

\* The positions whose check run is executing: spawned, and neither returned nor
\* panicked.
Executing(th) == { i \in Positions : th[i] \in {"running", "hung"} }

\* The positions the engine is waiting for: spawned, with recv_timeout not yet over.
Awaited(th, rc) == { i \in Positions : th[i] # "unspawned" /\ rc[i] = "none" }

\* C21: run_all starts the run of the next selected check only when the result of
\* every earlier selected check has been received or its timeout has fired; at any
\* time the engine awaits at most one check; and two runs execute at the same time
\* only when the earlier one was abandoned after its timeout.
C21_NextRunWaitsForPrevious ==
    [][ /\ (pc = "loop" /\ pc' = "recv") =>
              \A i \in 1..(idx - 1) :
                  thread[i] # "unspawned" => recv[i] \in {"Ok", "Timeout"}
        /\ Cardinality(Awaited(thread', recv')) <= 1
        /\ \A i \in Executing(thread') : \A j \in Executing(thread') :
              i < j => recv'[i] = "Timeout" ]_vars

\* C22: in strict mode the exit code is computed from the results of the first
\* audit pass: once main's run_all has returned no step changes those results, a
\* 'Rerun checks' changes only the wizard's current results, no wizard step exits
\* the process, and the exit that follows has the code of the first results.
C22_ExitCodeFromFirstPass ==
    [][ /\ pc # "main" => results' = results
        /\ pc = "wizard" => exit' = exit
        /\ (exit = <<>> /\ exit' # <<>> /\ exit'[1].strict) =>
              LET any_fail == \E k \in 1..Len(results) : results[k].status = "Fail"
                  any_warn == \E k \in 1..Len(results) : results[k].status = "Warn"
              IN exit'[1].code = IF any_fail THEN 2 ELSE IF any_warn THEN 1 ELSE 0 ]_vars

\* A strict run exited with code 2 for the Fail of its first pass, after the wizard
\* chose other categories and reran: its current results are fewer and have no Fail.
C22_Witness ==
    /\ exit # <<>>
    /\ exit[1].strict
    /\ exit[1].code = 2
    /\ wizard # <<>>
    /\ Len(wizard[1].current_results) < Len(results)
    /\ wizard[1].current_results # <<>>
    /\ \A k \in 1..Len(wizard[1].current_results) :
          wizard[1].current_results[k].status = "Pass"

====
